---- MODULE Spec2Model ----
(***************************************************************************)
(* A state-machine model of the No Man's Sky base builder add-on:          *)
(*   - NMSSettings (the scene-scoped state record and its operations),     *)
(*   - PartBuilder (parts.py), Snapper (snap.py),                          *)
(*   - the MESSAGEMODULE part override,                                    *)
(*   - the interactive commands that wrap them.                            *)
(* The host editor's scene is the sequence `objects` (bpy.data.objects);   *)
(* custom properties ("tags") of an object are a function from tag names   *)
(* to values.  Tag names are kept exactly as the code spells them: the     *)
(* part builder writes "objectID", the settings class reads "ObjectID".    *)
(***************************************************************************)
EXTENDS Integers, Sequences, FiniteSets, TLC

VARIABLES
    objects,        \* bpy.data.objects: sequence of object records
    nms,            \* scene.nms_base_tool: the Base Record + room_vis_switch
    part_order,     \* PART_BUILDER.part_order
    shading,        \* viewport shading / render settings set by the toggle
    material_alpha, \* diffuse_color[3] of every material, in hundredths
    snap_cache,     \* SNAPPER.snap_cache: object name -> {source, target}
    file,           \* content of the save file on disk
    last,           \* the last operation performed and how it ended
    hist,           \* history: the current run of consecutive toggles, the
                    \* messages set, the names cached for objects that
                    \* are still in the scene
    addon           \* what the add-on has installed in the host

vars == <<objects, nms, part_order, shading, material_alpha, snap_cache,
          file, last, hist, addon>>

-----------------------------------------------------------------------------
(* Bounds of the model *)

\* the user puts at most this many objects in the scene
MaxObjects == 2

\* with what the commands add to them the scene holds at most this many
MaxScene == 3

\* every coordinate of a position lies in -MaxCoord..MaxCoord
MaxCoord == 2

\* the coordinate of an object put far away from the others
FarCoord == 10000010

-----------------------------------------------------------------------------
(* Values *)

\* Python's None
None == "<None>"

\* a 3-vector
Vec(x, y, z) == <<x, y, z>>

ZeroVec == Vec(0, 0, 0)

\* A world transform, held as position + up + at vectors (editor space).
Transform(pos, up, at) == [pos |-> pos, up |-> up, at |-> at]

\* Rotation by -90 degrees about X: y' = z, z' = -y.
RotXNeg90(v) == Vec(v[1], v[3], 0 - v[2])

\* Rotation by +90 degrees about X: y' = -z, z' = y.
RotXPos90(v) == Vec(v[1], 0 - v[3], v[2])

\* the identity placement produced by build_item's default arguments
\* position=[0,0,0], up=[0,1,0], at=[0,0,1] (game space)
DefaultPosition == Vec(0, 0, 0)

DefaultUp == Vec(0, 1, 0)

DefaultAt == Vec(0, 0, 1)

DefaultTimestamp == 1539023700

-----------------------------------------------------------------------------
(* Static resources, loaded once at start-up *)

\* resources/ghosted.json, key "GHOSTED"
GHOSTED_ITEMS == {"CUBEROOM"}

\* lights.json: part id -> number of light entries
lights_dictionary == [p \in {"LAMP"} |-> 1]

\* the line parts Divide and Split accept
LineParts == {"U_POWERLINE", "U_PIPELINE", "U_PORTALLINE"}

-----------------------------------------------------------------------------
(* Scene objects *)

HasTag(ob, t) == t \in DOMAIN ob.tags

\* ob.get(t, default)
TagGet(ob, t, default) == IF HasTag(ob, t) THEN ob.tags[t] ELSE default

\* ob[t] = v
SetTag(ob, t, v) ==
    [ob EXCEPT !.tags = [k \in (DOMAIN ob.tags) \cup {t} |->
                            IF k = t THEN v ELSE ob.tags[k]]]

NoTags == [k \in {} |-> None]

\* colour index of an object that has no material assigned
NoMaterial == 0 - 1

\* A scene object.  lock is "none", "scale" (lock_scale on all axes) or
\* "all" (scale, location and rotation locked).
NewObject(name, kind, tags, mw) ==
    [name |-> name, kind |-> kind, tags |-> tags,
     hide_viewport |-> FALSE, hide_select |-> FALSE, select |-> FALSE,
     matrix_world |-> mw, lock |-> "none", material |-> NoMaterial]

Indices(objs) == 1..Len(objs)

Names(objs) == {objs[i].name : i \in Indices(objs)}

\* the elements of a sequence, as a set
Elements(seq) == {seq[i] : i \in 1..Len(seq)}

\* The host keeps object names unique by numbering: base, base.001, ...
\* A name is <<base, number, suffix>>.
UniqueName(objs, base) ==
    LET free == {n \in 0..Len(objs) : <<base, n, "">> \notin Names(objs)}
    IN  <<base, CHOOSE n \in free : \A m \in free : n <= m, "">>

\* bpy.context.selected_objects
SelectedIdx(objs) == {i \in Indices(objs) : objs[i].select}

\* utils.select(objs): select exactly these objects, clearing the rest
RECURSIVE select_from(_, _, _)
select_from(objs, idx, i) ==
    IF i > Len(objs) THEN <<>>
    ELSE <<[objs[i] EXCEPT !.select = (i \in idx)]>> \o select_from(objs, idx, i + 1)

select(objs, idx) == select_from(objs, idx, 1)

\* utils.get_current_selection(): the selected object (first in scene order)
\* or None; returned as an index, 0 for None
get_current_selection(objs) ==
    IF SelectedIdx(objs) = {} THEN 0
    ELSE CHOOSE i \in SelectedIdx(objs) : \A j \in SelectedIdx(objs) : i <= j

\* A bpy.ops "add"/"import" operator: the new object is appended to the
\* scene, it alone is selected.
AddObject(objs, ob) ==
    select(Append(objs, ob), {Len(objs) + 1})

-----------------------------------------------------------------------------
(* Transforms *)

VAdd(a, b) == Vec(a[1] + b[1], a[2] + b[2], a[3] + b[3])

VNeg(a) == Vec(0 - a[1], 0 - a[2], 0 - a[3])

VScale(k, a) == Vec(k * a[1], k * a[2], k * a[3])

Dot(a, b) == a[1] * b[1] + a[2] * b[2] + a[3] * b[3]

Cross(a, b) ==
    Vec(a[2] * b[3] - a[3] * b[2],
        a[3] * b[1] - a[1] * b[3],
        a[1] * b[2] - a[2] * b[1])

\* the X axis of a transform whose Y axis is up and Z axis is at
Right(m) == Cross(m.up, m.at)

\* the rotation part of m applied to direction v
Dir(m, v) ==
    VAdd(VScale(v[1], Right(m)), VAdd(VScale(v[2], m.up), VScale(v[3], m.at)))

\* the one element of a singleton set: an expression is evaluated once and
\* used as a value
Value(S) == CHOOSE v \in S : TRUE

\* matrix product m @ n
MatMul(m, n) ==
    Value({Transform(VAdd(a.pos, Dir(a, b.pos)), Dir(a, b.up), Dir(a, b.at)) :
            a \in {m}, b \in {n}})

\* the rotation part of m, transposed, applied to v
InvDir(m, v) == Vec(Dot(v, Right(m)), Dot(v, m.up), Dot(v, m.at))

\* matrix.invert() for a rigid transform
Invert(m) ==
    Value({Transform(VNeg(InvDir(a, a.pos)),
                     InvDir(a, Vec(0, 1, 0)), InvDir(a, Vec(0, 0, 1))) :
            a \in {m}})

IdentityMatrix == Transform(ZeroVec, Vec(0, 1, 0), Vec(0, 0, 1))

\* mathutils.Matrix.Rotation(radians(180), 4, "Y")
Rot180Y == Transform(ZeroVec, Vec(0, 1, 0), Vec(0, 0, 0 - 1))

\* utils.move_to(item, position, up, at): game-space vectors are brought
\* into editor space (the inverse of the rotation get_part_data applies)
move_to(position, up, at) ==
    Transform(RotXPos90(position), RotXPos90(up), RotXPos90(at))

-----------------------------------------------------------------------------
(* Snapper (snap.py) *)

\* resources/snapping_info.json: group -> parts and named snap points.
\* A snap point is its local matrix and, optionally, its "opposite".
SnapPoint(pos, opposite) ==
    [matrix |-> Transform(pos, Vec(0, 1, 0), Vec(0, 0, 1)),
     opposite |-> opposite]

snap_matrix_dictionary ==
    [g \in {"ROOM", "WALLG", "DECOR"} |->
        CASE g = "ROOM" ->
                [parts |-> {"CUBEROOM", "CORRIDOR"},
                 snap_points |->
                    [k \in {"TOP", "BOTTOM", "SIDE"} |->
                        CASE k = "TOP" -> SnapPoint(Vec(0, 0, 2), "BOTTOM")
                          [] k = "BOTTOM" -> SnapPoint(Vec(0, 0, 0 - 2), "TOP")
                          [] OTHER -> SnapPoint(Vec(1, 1, 0), None)]]
          [] g = "WALLG" ->
                [parts |-> {"WALL"},
                 snap_points |->
                    [k \in {"LEFT", "RIGHT"} |->
                        CASE k = "LEFT" -> SnapPoint(Vec(0 - 1, 0, 0), "RIGHT")
                          [] OTHER -> SnapPoint(Vec(1, 0, 0), "LEFT")]]
          [] OTHER ->
                \* a group that declares no "snap_points"
                [parts |-> {"LAMP"}]]

\* resources/snapping_pairs.json: target group -> source group ->
\* [target point names, source point names].  The JSON holds each list as
\* one comma-separated text; split(",") and strip() give these sequences.
snap_pair_dictionary ==
    [tg \in {"ROOM", "WALLG"} |->
        IF tg = "ROOM"
        THEN [sg \in {"ROOM", "WALLG"} |->
                IF sg = "ROOM"
                THEN <<(<<"TOP", "BOTTOM", "SIDE">>), (<<"BOTTOM", "TOP", "SIDE">>)>>
                ELSE <<(<<"SIDE">>), (<<"LEFT">>)>>]
        ELSE [sg \in {"WALLG"} |->
                <<(<<"LEFT", "RIGHT">>), (<<"RIGHT", "LEFT">>)>>]]

NoRef == [k \in {} |-> None]

\* Snapper.get_snap_matrices_from_group.  The code returns None when the
\* group has no snap points and only ever tests the result for truth, so
\* None and the empty dictionary are both held as the empty function.
get_snap_matrices_from_group(group) ==
    IF group \in DOMAIN snap_matrix_dictionary
       /\ "snap_points" \in DOMAIN snap_matrix_dictionary[group]
    THEN snap_matrix_dictionary[group].snap_points
    ELSE NoRef

\* Snapper.get_snap_group_from_part
get_snap_group_from_part(part_id) ==
    IF \E g \in DOMAIN snap_matrix_dictionary :
            part_id \in snap_matrix_dictionary[g].parts
    THEN CHOOSE g \in DOMAIN snap_matrix_dictionary :
            part_id \in snap_matrix_dictionary[g].parts
    ELSE None

\* Snapper.get_snap_pair_options.  "No pairing" (None in the code, tested
\* only for truth) is the empty sequence.
get_snap_pair_options(target_item_id, source_item_id) ==
    LET target_group == get_snap_group_from_part(target_item_id)
        source_group == get_snap_group_from_part(source_item_id)
    IN  IF target_group = None /\ source_group = None THEN <<>>
        ELSE IF target_group \in DOMAIN snap_pair_dictionary
                /\ source_group \in DOMAIN snap_pair_dictionary[target_group]
        THEN snap_pair_dictionary[target_group][source_group]
        ELSE <<>>

\* the elements of a sequence
Range(seq) == {seq[i] : i \in 1..Len(seq)}

\* list.index(value)
IndexOf(seq, value) ==
    CHOOSE i \in 1..Len(seq) : seq[i] = value /\ \A j \in 1..(i - 1) : seq[j] # value

\* utils.get_adjacent_dict_key(options, current, step): the next or previous
\* entry cyclically; the current value unchanged when it is not in the list
get_adjacent_dict_key(options, current, step) ==
    IF current \notin Range(options) THEN current
    ELSE LET i == IndexOf(options, current)
             n == Len(options)
         IN  IF step = "next" THEN options[(i % n) + 1]
             ELSE options[((i + n - 2) % n) + 1]

\* dict.get(key, default) on a snap-cache entry
RefGet(ref, key, default) == IF key \in DOMAIN ref THEN ref[key] ELSE default

\* ref[key] = value
RefSet(ref, key, value) ==
    [k \in (DOMAIN ref) \cup {key} |-> IF k = key THEN value ELSE ref[k]]

\* snap_cache.get(name, {})
CacheGet(cache, name) == IF name \in DOMAIN cache THEN cache[name] ELSE NoRef

\* snap_cache[name] = ref
CacheSet(cache, name, ref) ==
    [n \in (DOMAIN cache) \cup {name} |-> IF n = name THEN ref ELSE cache[n]]

\* A faulty variant of PointOpposite: the declared opposite is not read.
PointOpposite_undeclared(point, default) == default

\* point.get("opposite", default)
PointOpposite(point, default) ==
    IF point.opposite = None THEN default ELSE point.opposite

\* A faulty variant of resolve_target_key: the cached key is not read,
\* every call starts from the first listed key.
resolve_target_key_uncached(cache, target, target_pairing_options, next_target, prev_target) ==
    LET default_target_key == target_pairing_options[1]
    IN  IF next_target
        THEN get_adjacent_dict_key(target_pairing_options, default_target_key, "next")
        ELSE IF prev_target
        THEN get_adjacent_dict_key(target_pairing_options, default_target_key, "prev")
        ELSE default_target_key

\* The target point key snap_objects resolves (snap.py 224-258).
resolve_target_key(cache, target, target_pairing_options, next_target, prev_target) ==
    LET target_item_snap_reference == CacheGet(cache, target.name)
        target_local_matrix_datas ==
            get_snap_matrices_from_group(
                get_snap_group_from_part(target.tags["SnapID"]))
        default_target_key == target_pairing_options[1]
        cached == RefGet(target_item_snap_reference, "target", default_target_key)
        valid == IF cached \notin Range(target_pairing_options)
                 THEN default_target_key ELSE cached
        stepped == IF next_target
                   THEN get_adjacent_dict_key(target_pairing_options, valid, "next")
                   ELSE valid
    IN  IF DOMAIN target_local_matrix_datas = {} THEN None
        ELSE IF prev_target
             THEN get_adjacent_dict_key(target_pairing_options, stepped, "prev")
             ELSE stepped

\* A faulty variant of resolve_source_key: the key taken from the cache
\* is not tested against the pairing's source points.
resolve_source_key_unvalidated(cache, source, target, target_key, source_pairing_options, next_source, prev_source, next_target, prev_target) ==
    LET source_item_snap_reference == CacheGet(cache, source.name)
        source_id == source.tags["SnapID"]
        target_id == target.tags["SnapID"]
        source_local_matrix_datas ==
            get_snap_matrices_from_group(get_snap_group_from_part(source_id))
        target_local_matrix_datas ==
            get_snap_matrices_from_group(get_snap_group_from_part(target_id))
        default_source_key ==
            IF source_id = target_id
            THEN PointOpposite(target_local_matrix_datas[target_key],
                               source_pairing_options[1])
            ELSE source_pairing_options[1]
        chosen ==
            IF source_id = target_id /\ (prev_target \/ next_target)
            THEN PointOpposite(target_local_matrix_datas[target_key],
                               default_source_key)
            ELSE RefGet(source_item_snap_reference, "source", default_source_key)
        stepped == IF next_source
                   THEN get_adjacent_dict_key(source_pairing_options, chosen, "next")
                   ELSE chosen
    IN  IF DOMAIN source_local_matrix_datas = {} THEN None
        ELSE IF prev_source
             THEN get_adjacent_dict_key(source_pairing_options, stepped, "prev")
             ELSE stepped

\* The source point key snap_objects resolves (snap.py 260-310).
resolve_source_key(cache, source, target, target_key, source_pairing_options, next_source, prev_source, next_target, prev_target) ==
    LET source_item_snap_reference == CacheGet(cache, source.name)
        source_id == source.tags["SnapID"]
        target_id == target.tags["SnapID"]
        source_local_matrix_datas ==
            get_snap_matrices_from_group(get_snap_group_from_part(source_id))
        target_local_matrix_datas ==
            get_snap_matrices_from_group(get_snap_group_from_part(target_id))
        default_source_key ==
            IF source_id = target_id
            THEN PointOpposite(target_local_matrix_datas[target_key],
                               source_pairing_options[1])
            ELSE source_pairing_options[1]
        chosen ==
            IF source_id = target_id /\ (prev_target \/ next_target)
            THEN PointOpposite(target_local_matrix_datas[target_key],
                               default_source_key)
            ELSE RefGet(source_item_snap_reference, "source", default_source_key)
        valid == IF chosen \notin Range(source_pairing_options)
                 THEN default_source_key ELSE chosen
        stepped == IF next_source
                   THEN get_adjacent_dict_key(source_pairing_options, valid, "next")
                   ELSE valid
    IN  IF DOMAIN source_local_matrix_datas = {} THEN None
        ELSE IF prev_source
             THEN get_adjacent_dict_key(source_pairing_options, stepped, "prev")
             ELSE stepped

\* The placement of the source computed by the snap-point matrix maths
\* (snap.py 320-357).
snap_location(source_matrix_world, target_matrix_world, offset_matrix, target_offset_matrix) ==
    LET start_matrix == source_matrix_world
        start_matrix_inv == Invert(source_matrix_world)
        target_snap_matrix == MatMul(target_matrix_world, target_offset_matrix)
        snap_matrix == MatMul(start_matrix, offset_matrix)
        snap_matrix_inv == Invert(snap_matrix)
        origin_matrix == MatMul(snap_matrix_inv, snap_matrix)
        origin_flipped_matrix == MatMul(Rot180Y, origin_matrix)
        flipped_snap_matrix == MatMul(snap_matrix, origin_flipped_matrix)
        flipped_local_offset == MatMul(start_matrix_inv, flipped_snap_matrix)
    IN  MatMul(target_snap_matrix, Invert(flipped_local_offset))

\* The order in which resources/snapping_info.json lists the snap points
\* of a group: the order dict.items() scans them in.
snap_point_keys(group) ==
    CASE group = "ROOM" -> <<"TOP", "BOTTOM", "SIDE">>
      [] group = "WALLG" -> <<"LEFT", "RIGHT">>
      [] OTHER -> <<>>

\* the characters of a snap point name
KeyChars(key) ==
    CASE key = "TOP" -> <<"T", "O", "P">>
      [] key = "BOTTOM" -> <<"B", "O", "T", "T", "O", "M">>
      [] key = "SIDE" -> <<"S", "I", "D", "E">>
      [] key = "LEFT" -> <<"L", "E", "F", "T">>
      [] OTHER -> <<"R", "I", "G", "H", "T">>

\* `part in text` of two texts
IsSubstring(part, text) ==
    \E i \in 0..(Len(text) - Len(part)) :
        SubSeq(text, i + 1, i + Len(part)) = part

\* `if source_filter and source_filter not in source_key: continue`; no
\* filter (None) and the empty text are both the empty sequence
filtered_out(filter, key) ==
    filter # <<>> /\ ~IsSubstring(filter, KeyChars(key))

\* lowest_distance = 9999999
lowest_distance_initial == 9999999

\* A distance is held as its square; a distance of 9999999 or more is
\* held as "far".  The positions compared differ in each coordinate by
\* less than a thousand or, in some coordinate, by 9999999 or more.
Distance(far, square) == [far |-> far, square |-> square]

\* Snapper.get_distance_between(matrix1, matrix2)
get_distance_between(matrix1, matrix2) ==
    LET d == [c \in 1..3 |-> matrix2.pos[c] - matrix1.pos[c]]
    IN  IF \E c \in 1..3 : d[c] >= lowest_distance_initial
                            \/ 0 - d[c] >= lowest_distance_initial
        THEN Distance(TRUE, 0)
        ELSE Distance(FALSE, Dot(d, d))

\* distance < lowest_distance, where lowest_distance is the initial value
\* (held as "far") or a distance stored before
distance_below(distance, lowest_distance) ==
    /\ ~distance.far
    /\ lowest_distance.far \/ distance.square < lowest_distance.square

\* what the scan holds: the closest pair so far and its distance
Lowest(source_key, target_key, distance) ==
    [source_key |-> source_key, target_key |-> target_key,
     distance |-> distance]

\* A faulty variant of closer: a pair as close as the stored one replaces
\* it.
closer_or_equal(lowest, source_key, target_key, distance) ==
    IF ~distance.far
       /\ (lowest.distance.far \/ distance.square <= lowest.distance.square)
    THEN Lowest(source_key, target_key, distance)
    ELSE lowest

\* lines 117-120: the pair replaces the stored one when it is closer
closer(lowest, source_key, target_key, distance) ==
    IF distance_below(distance, lowest.distance)
    THEN Lowest(source_key, target_key, distance)
    ELSE lowest

\* the inner loop of get_closest_snap_points (lines 100-120) over the
\* target points from position j on
RECURSIVE scan_targets(_, _, _, _, _, _, _, _)
scan_targets(lowest, source, target, source_key, target_keys, j, target_filter, datas) ==
    IF j > Len(target_keys) THEN lowest
    ELSE LET target_key == target_keys[j]
             source_snap_matrix ==
                 MatMul(source.matrix_world, datas.source[source_key].matrix)
             target_snap_matrix ==
                 MatMul(target.matrix_world, datas.target[target_key].matrix)
             next ==
                 IF filtered_out(target_filter, target_key) THEN lowest
                 ELSE closer(lowest, source_key, target_key,
                             get_distance_between(source_snap_matrix,
                                                  target_snap_matrix))
         IN  Value({scan_targets(l, source, target, source_key, target_keys,
                                 j + 1, target_filter, datas) : l \in {next}})

\* the outer loop of get_closest_snap_points (lines 95-120) over the
\* source points from position i on
RECURSIVE scan_sources(_, _, _, _, _, _, _, _, _)
scan_sources(lowest, source, target, source_keys, target_keys, i, source_filter, target_filter, datas) ==
    IF i > Len(source_keys) THEN lowest
    ELSE LET next ==
                 IF filtered_out(source_filter, source_keys[i]) THEN lowest
                 ELSE scan_targets(lowest, source, target, source_keys[i],
                                   target_keys, 1, target_filter, datas)
         IN  Value({scan_sources(l, source, target, source_keys, target_keys,
                                 i + 1, source_filter, target_filter, datas) :
                        l \in {next}})

\* Snapper.get_closest_snap_points(source, target, source_filter,
\* target_filter): the pair of keys returned, or the exception raised.
\* get_snap_matrices_from_group returns None for a part of no group and
\* for a group without snap points, and None has no items().
get_closest_snap_points(source, target, source_filter, target_filter) ==
    LET source_snap_group == get_snap_group_from_part(source.tags["SnapID"])
        target_snap_group == get_snap_group_from_part(target.tags["SnapID"])
        source_matrices == get_snap_matrices_from_group(source_snap_group)
        target_matrices == get_snap_matrices_from_group(target_snap_group)
        lowest ==
            scan_sources(Lowest(None, None, Distance(TRUE, 0)), source, target,
                         snap_point_keys(source_snap_group),
                         snap_point_keys(target_snap_group), 1,
                         source_filter, target_filter,
                         [source |-> source_matrices,
                          target |-> target_matrices])
    IN  IF ~HasTag(source, "SnapID") \/ ~HasTag(target, "SnapID")
        THEN [status |-> "raised", error |-> "KeyError",
              source_key |-> None, target_key |-> None]
        ELSE IF \/ DOMAIN source_matrices = {}
                \/ /\ DOMAIN target_matrices = {}
                   /\ \E k \in DOMAIN source_matrices :
                        ~filtered_out(source_filter, k)
        THEN [status |-> "raised", error |-> "AttributeError",
              source_key |-> None, target_key |-> None]
        ELSE [status |-> "ok", error |-> "",
              source_key |-> lowest.source_key,
              target_key |-> lowest.target_key]

\* What a call of snap_objects leaves behind
SnapResult(objs, cache, ret, source_key, target_key) ==
    [objects |-> objs, snap_cache |-> cache, ret |-> ret,
     source_key |-> source_key, target_key |-> target_key]

\* source.matrix_world = copy(target.matrix_world); utils.select([source])
snap_baseline(objs, s, t) ==
    select([objs EXCEPT ![s].matrix_world = objs[t].matrix_world], {s})

\* A faulty variant of snap_to_preset: the source is moved, the selection
\* is left as it was.
snap_to_preset_unselected(objs, cache, s, t) ==
    SnapResult([objs EXCEPT ![s].matrix_world = objs[t].matrix_world],
               cache, "None", None, None)

\* For preset targets, just snap them together (lines 186-189)
snap_to_preset(objs, cache, s, t) ==
    SnapResult(snap_baseline(objs, s, t), cache, "None", None, None)

\* A faulty variant of snap_without_id: the SnapID test comes after the
\* move of the source to the target.
snap_without_id_moved(objs, cache, s, t) ==
    SnapResult(snap_baseline(objs, s, t), cache, "False", None, None)

\* Check of object IDs (lines 198-202)
snap_without_id(objs, cache, s, t) ==
    SnapResult(objs, cache, "False", None, None)

\* A faulty variant of snap_without_pairing: the pairing is looked up
\* before the source is moved.
snap_without_pairing_unmoved(objs, cache, s, t) ==
    SnapResult(objs, cache, "False", None, None)

\* the source moved to the target, no snap details available (lines 204-215)
snap_without_pairing(objs, cache, s, t) ==
    SnapResult(snap_baseline(objs, s, t), cache, "False", None, None)

\* Snapper.snap_objects(source, target, ...): s and t are the positions of
\* source and target in the scene.  ret is "None", "False" or "True".
snap_objects(objs, cache, s, t, next_source, prev_source, next_target, prev_target) ==
    LET source == objs[s]
        target == objs[t]
        baseline == snap_baseline(objs, s, t)
        snap_pairing_options ==
            get_snap_pair_options(target.tags["SnapID"], source.tags["SnapID"])
        target_pairing_options == snap_pairing_options[1]
        source_pairing_options == snap_pairing_options[2]
        source_datas ==
            get_snap_matrices_from_group(
                get_snap_group_from_part(source.tags["SnapID"]))
        target_datas ==
            get_snap_matrices_from_group(
                get_snap_group_from_part(target.tags["SnapID"]))
        \* lines 312-389, for the keys resolved; the source is where line
        \* 205 moved it, on the target
        snapped(source_key, target_key) ==
            LET target_location ==
                    snap_location(target.matrix_world, target.matrix_world,
                                  source_datas[source_key].matrix,
                                  target_datas[target_key].matrix)
                next_target_key == PointOpposite(source_datas[source_key], None)
                source_ref ==
                    RefSet(RefSet(CacheGet(cache, source.name),
                                  "source", source_key),
                           "target", next_target_key)
                target_ref ==
                    RefSet(CacheGet(cache, target.name), "target", target_key)
            IN  IF source_key # None /\ target_key # None
                THEN SnapResult(
                        select([baseline EXCEPT ![s].matrix_world = target_location],
                               {t, s}),
                        CacheSet(CacheSet(cache, source.name, source_ref),
                                 target.name, target_ref),
                        "True", source_key, target_key)
                ELSE SnapResult(baseline, cache, "None", source_key, target_key)
        \* lines 260-310, for the target key resolved
        with_target(target_key) ==
            Value({snapped(source_key, target_key) :
                    source_key \in
                        {resolve_source_key(cache, source, target, target_key,
                                            source_pairing_options, next_source,
                                            prev_source, next_target, prev_target)}})
    IN  IF HasTag(target, "PresetID")
        THEN snap_to_preset(objs, cache, s, t)
        ELSE IF ~HasTag(source, "SnapID") \/ ~HasTag(target, "SnapID")
        THEN snap_without_id(objs, cache, s, t)
        ELSE IF snap_pairing_options = <<>>
        THEN snap_without_pairing(objs, cache, s, t)
        ELSE Value({with_target(target_key) :
                    target_key \in
                        {resolve_target_key(cache, target, target_pairing_options,
                                            next_target, prev_target)}})

-----------------------------------------------------------------------------
(* PartBuilder (parts.py) *)

\* PartBuilder.part_reference: the part ids that have an asset file
part_reference == {"CUBEROOM", "WALL", "LAMP", "BASE_FLAG"}

\* material.assign_material(item, colour_index): the object takes the
\* material of that colour and records the colour as its user data
assign_material(item, colour_index) ==
    [SetTag(item, "UserData", colour_index) EXCEPT !.material = colour_index]

\* One light of build_light: lamp_add, the NMS_LIGHT tag, the name
\* "<item name>_light<idx>", hidden and not selectable.
NewLight(item) ==
    [NewObject(<<item.name[1], item.name[2], "_light0">>, "LIGHT",
               [k \in {"NMS_LIGHT"} |-> TRUE], IdentityMatrix)
        EXCEPT !.hide_viewport = TRUE, !.hide_select = TRUE]

\* PartBuilder.build_light(item): objs ends with item
build_light(objs) ==
    LET item == objs[Len(objs)]
    IN  IF ~HasTag(item, "objectID") THEN objs
        ELSE IF item.tags["objectID"] \notin DOMAIN lights_dictionary THEN objs
        ELSE AddObject(objs, NewLight(item))

\* the number of scene objects build_item(part) creates
BuiltCount(part) == IF part \in DOMAIN lights_dictionary THEN 2 ELSE 1

\* PartBuilder.part_cache: part name -> name of the object built for it.
\* __init__ creates it empty and clear_cache empties it; no statement of
\* the class stores an entry in it.
part_cache ==
    [part_name \in {} |-> <<"", 0, "">>]

\* The branch PartBuilder.retrieve_part(part_name) takes: the cached
\* hierarchy when part_cache has the part and its object is in the scene,
\* the asset file when the part has one, the placeholder cube otherwise.
retrieve_outcome(objs, part_name) ==
    IF /\ part_name \in DOMAIN part_cache
       /\ part_cache[part_name] \in Names(objs)
    THEN "duplicate"
    ELSE IF part_name \in part_reference THEN "import" ELSE "cube"

\* PartBuilder.retrieve_part(part_name).  The duplicate branch passes the
\* local `item` before it is bound and returns ahead of the naming; with
\* part_cache empty the branch is not taken.
retrieve_part(objs, part_name) ==
    LET outcome == retrieve_outcome(objs, part_name)
        kind == IF outcome = "import" THEN "MESH" ELSE "CUBE"
        item == NewObject(UniqueName(objs, part_name), kind,
                          [k \in {"objectID"} |-> part_name], IdentityMatrix)
    IN  IF outcome = "duplicate" THEN objs
        ELSE build_light(AddObject(objs, item))

\* A faulty variant of build_item: the timestamp is not stored on the item.
build_item_without_timestamp(objs, part, timestamp, userdata, position, up_vec, at_vec) ==
    LET i == Len(objs) + 1
        retrieved == retrieve_part(objs, part)
        locked == [retrieved[i] EXCEPT
                      !.lock = IF part = "BASE_FLAG" THEN "all" ELSE "scale"]
        tagged == SetTag(SetTag(locked, "objectID", part),
                         "belongs_to_preset", FALSE)
        coloured == assign_material(tagged, userdata)
        moved == [coloured EXCEPT
                     !.matrix_world = move_to(position, up_vec, at_vec),
                     !.select = TRUE]
    IN  [retrieved EXCEPT ![i] = moved]

\* PartBuilder.build_item: the scene after the build; the new item is at
\* position Len(objs) + 1.
build_item(objs, part, timestamp, userdata, position, up_vec, at_vec) ==
    LET i == Len(objs) + 1
        retrieved == retrieve_part(objs, part)
        locked == [retrieved[i] EXCEPT
                      !.lock = IF part = "BASE_FLAG" THEN "all" ELSE "scale"]
        tagged == SetTag(SetTag(SetTag(locked, "objectID", part),
                                "Timestamp", timestamp),
                         "belongs_to_preset", FALSE)
        coloured == assign_material(tagged, userdata)
        moved == [coloured EXCEPT
                     !.matrix_world = move_to(position, up_vec, at_vec),
                     !.select = TRUE]
    IN  [retrieved EXCEPT ![i] = moved]

\* What get_part_data reads from an object; a missing tag raises KeyError
CanGetPartData(object, is_preset) ==
    /\ HasTag(object, "objectID")
    /\ is_preset \/ (HasTag(object, "Timestamp") /\ HasTag(object, "UserData"))

\* "^{0}".format(id): a text is held as its sequence of tokens
Caret(id) == <<"^", id>>

NotCaret(token) == token # "^"

\* the text of two tokens written one after the other
Concat(a, b) == IF a = "W" /\ b = "ALL" THEN "WALL" ELSE "?"

\* text.replace("^", ""): every "^" is removed, what is left is joined
replace_caret(text) ==
    LET kept == SelectSeq(text, NotCaret)
    IN  CASE Len(kept) = 0 -> ""
          [] Len(kept) = 1 -> kept[1]
          [] OTHER -> Concat(kept[1], kept[2])

\* PartBuilder.get_part_data(object, is_preset)
get_part_data(object, is_preset) ==
    LET m == object.matrix_world
        base == [ObjectID |-> Caret(object.tags["objectID"]),
                 Position |-> RotXNeg90(m.pos),
                 Up |-> RotXNeg90(m.up),
                 At |-> RotXNeg90(m.at)]
    IN  IF is_preset THEN base
        ELSE [ObjectID |-> base.ObjectID, Position |-> base.Position,
              Up |-> base.Up, At |-> base.At,
              Timestamp |-> object.tags["Timestamp"],
              UserData |-> object.tags["UserData"]]

\* get_all_nms_objects raises KeyError when capture_presets is set and an
\* object has no "belongs_to_preset" tag
CanGetAllNmsObjects(objs, capture_presets) ==
    capture_presets => \A i \in Indices(objs) : HasTag(objs[i], "belongs_to_preset")

IsPresetTagged(ob) == HasTag(ob, "presetID")

IsFlatPart(ob) == ob.tags["belongs_to_preset"] = FALSE

IsTaggedPart(ob) == HasTag(ob, "objectID")

\* PartBuilder.get_all_nms_objects(capture_presets)
get_all_nms_objects(objs, capture_presets) ==
    IF capture_presets
    THEN SelectSeq(objs, IsPresetTagged) \o SelectSeq(objs, IsFlatPart)
    ELSE SelectSeq(objs, IsTaggedPart)

\* PartBuilder.get_all_part_data(capture_presets): get_part_data of every
\* object get_all_nms_objects returns, is_preset taken from the object's
\* preset-membership tag
CanGetAllPartData(objs, capture_presets) ==
    /\ CanGetAllNmsObjects(objs, capture_presets)
    /\ LET found == get_all_nms_objects(objs, capture_presets)
       IN  \A i \in 1..Len(found) :
              CanGetPartData(found[i], TagGet(found[i], "belongs_to_preset", FALSE))

RECURSIVE part_data_of(_)
part_data_of(found) ==
    IF found = <<>> THEN <<>>
    ELSE <<get_part_data(Head(found),
                         TagGet(Head(found), "belongs_to_preset", FALSE))>>
         \o part_data_of(Tail(found))

get_all_part_data(objs, capture_presets) ==
    part_data_of(get_all_nms_objects(objs, capture_presets))

\* PartBuilder.build_parts_from_dict(data): one build_item per entry of
\* data["Objects"], in order
RECURSIVE build_parts(_, _)
build_parts(objs, entries) ==
    IF entries = <<>> THEN objs
    ELSE LET part_data == Head(entries)
         IN  build_parts(
                build_item(objs, replace_caret(part_data.ObjectID),
                           part_data.Timestamp, part_data.UserData,
                           part_data.Position, part_data.Up, part_data.At),
                Tail(entries))

build_parts_from_dict(objs, data) ==
    IF "Objects" \notin DOMAIN data THEN objs
    ELSE build_parts(objs, data.Objects)

\* the number of scene objects build_parts_from_dict(data) creates
RECURSIVE BuiltCountAll(_)
BuiltCountAll(entries) ==
    IF entries = <<>> THEN 0
    ELSE BuiltCount(replace_caret(Head(entries).ObjectID))
         + BuiltCountAll(Tail(entries))

\* PresetBuilder.get_all_preset_data(): the preset catalog (no preset saved)
get_all_preset_data == <<>>

\* PresetBuilder.build_presets_from_dict(data): rebuilds the presets listed
\* under "Presets"
build_presets_from_dict(objs, data) == objs

\* power.optimise_control_points(): merges coinciding control points
optimise_control_points(objs) == objs

-----------------------------------------------------------------------------
(* Document values *)

\* A JSON scalar is <<"int", digits>> or <<"str", text>>.
IntVal(digits) == <<"int", digits>>

StrVal(text) == <<"str", text>>

\* str(value)
str(value) == value[2]

\* The texts int() accepts, with the decimal text of the integer they
\* denote: int(" 5") = 5.  Every other text raises ValueError.
IntTexts == [t \in {"5", " 5", "12"} |-> IF t = " 5" THEN "5" ELSE t]

\* A faulty variant of int_or_text: the stored text is never converted.
int_or_text_kept(text) == StrVal(text)

\* try: int(text) except: text
int_or_text(text) ==
    IF text \in DOMAIN IntTexts THEN IntVal(IntTexts[text]) ELSE StrVal(text)

-----------------------------------------------------------------------------
(* NMSSettings (__init__.py) *)

\* The property defaults of the NMSSettings property group
DefaultSettings ==
    [string_address |-> "", string_base |-> "", string_usn |-> "",
     string_uid |-> "", string_lid |-> "", string_ptk |-> "",
     string_ts |-> "", string_last_ts |-> "",
     float_pos |-> ZeroVec, float_ori |-> ZeroVec,
     LastEditedById |-> "", LastEditedByUsername_value |-> "",
     original_base_version |-> 3, room_vis_switch |-> 0]

\* the tags new_file looks for
NewFileTags == {"ObjectID", "PresetID", "NMS_LIGHT", "base_builder_item"}

\* new_file selects (and then deletes) exactly the objects with such a tag
SelectedByNewFile(ob) == \E t \in NewFileTags : HasTag(ob, t)

KeptByNewFile(ob) == ~SelectedByNewFile(ob)

\* NMSSettings.new_file: the settings fields
new_file_settings(n) ==
    [n EXCEPT !.string_address = "", !.string_base = "", !.string_lid = "",
              !.string_ts = "", !.string_uid = "", !.string_usn = "",
              !.string_ptk = "", !.float_pos = ZeroVec, !.float_ori = ZeroVec,
              !.string_last_ts = "", !.LastEditedById = "",
              !.original_base_version = 3,
              !.LastEditedByUsername_value = "", !.room_vis_switch = 0]

\* NMSSettings.new_file: the scene.  select_all(DESELECT), the tagged
\* objects are made selectable and selected, object.delete() removes them.
new_file_objects(objs) ==
    SelectSeq(select(objs, {}), KeptByNewFile)

\* the Owner keys in the order generate_from_data reads them, with the
\* settings field each is copied to
OwnerKeys == <<"UID", "TS", "LID", "USN", "PTK">>

OwnerField(key) ==
    CASE key = "UID" -> "string_uid"
      [] key = "TS" -> "string_ts"
      [] key = "LID" -> "string_lid"
      [] key = "USN" -> "string_usn"
      [] OTHER -> "string_ptk"

\* generate_from_data, lines 214-220: a key Owner lacks raises KeyError,
\* the fields read before it stay applied
RECURSIVE copy_owner(_, _, _)
copy_owner(n, Owner_details, keys) ==
    IF keys = <<>> THEN [nms |-> n, raised |-> FALSE]
    ELSE IF Head(keys) \notin DOMAIN Owner_details
    THEN [nms |-> n, raised |-> TRUE]
    ELSE copy_owner([n EXCEPT ![OwnerField(Head(keys))] =
                                    str(Owner_details[Head(keys)])],
                    Owner_details, Tail(keys))

\* A faulty variant of copy_fields_before_owner: the galactic address of
\* the document is not taken over.
copy_fields_before_owner_without_address(n, nms_data) ==
    LET b == IF "Position" \in DOMAIN nms_data
             THEN [n EXCEPT !.float_pos = nms_data.Position] ELSE n
        c == IF "Forward" \in DOMAIN nms_data
             THEN [b EXCEPT !.float_ori = nms_data.Forward] ELSE b
        d == IF "Name" \in DOMAIN nms_data
             THEN [c EXCEPT !.string_base = str(nms_data.Name)] ELSE c
    IN  IF "LastUpdateTimestamp" \in DOMAIN nms_data
        THEN [d EXCEPT !.string_last_ts = str(nms_data.LastUpdateTimestamp)]
        ELSE d

\* generate_from_data, lines 200-213
copy_fields_before_owner(n, nms_data) ==
    LET a == IF "GalacticAddress" \in DOMAIN nms_data
             THEN [n EXCEPT !.string_address = str(nms_data.GalacticAddress)]
             ELSE n
        b == IF "Position" \in DOMAIN nms_data
             THEN [a EXCEPT !.float_pos = nms_data.Position] ELSE a
        c == IF "Forward" \in DOMAIN nms_data
             THEN [b EXCEPT !.float_ori = nms_data.Forward] ELSE b
        d == IF "Name" \in DOMAIN nms_data
             THEN [c EXCEPT !.string_base = str(nms_data.Name)] ELSE c
    IN  IF "LastUpdateTimestamp" \in DOMAIN nms_data
        THEN [d EXCEPT !.string_last_ts = str(nms_data.LastUpdateTimestamp)]
        ELSE d

\* generate_from_data, lines 222-227
copy_fields_after_owner(n, nms_data) ==
    LET a == IF "LastEditedById" \in DOMAIN nms_data
             THEN [n EXCEPT !.LastEditedById = str(nms_data.LastEditedById)]
             ELSE n
        b == IF "LastEditedByUsername" \in DOMAIN nms_data
             THEN [a EXCEPT !.LastEditedByUsername_value =
                                str(nms_data.LastEditedByUsername)]
             ELSE a
    IN  IF "OriginalBaseVersion" \in DOMAIN nms_data
        THEN [b EXCEPT !.original_base_version = nms_data.OriginalBaseVersion]
        ELSE b

\* What a call leaves behind: the settings, the scene, whether it
\* returned ("ok") or raised ("raised"), and the steps it performed, in
\* the order it performed them
Outcome(n, objs, status, steps) ==
    [nms |-> n, objects |-> objs, status |-> status, steps |-> steps]

\* A faulty variant of build_steps: the power network is optimised only
\* when something was built.
build_steps_when_built(nms_data) ==
    (IF "Objects" \in DOMAIN nms_data
     THEN <<"build_parts_from_dict">> ELSE <<>>)
    \o (IF "Presets" \in DOMAIN nms_data
        THEN <<"build_presets_from_dict">> ELSE <<>>)
    \o (IF "Objects" \in DOMAIN nms_data \/ "Presets" \in DOMAIN nms_data
        THEN <<"optimise_control_points">> ELSE <<>>)

\* the steps of lines 235-242, in their order
build_steps(nms_data) ==
    (IF "Objects" \in DOMAIN nms_data
     THEN <<"build_parts_from_dict">> ELSE <<>>)
    \o (IF "Presets" \in DOMAIN nms_data
        THEN <<"build_presets_from_dict">> ELSE <<>>)
    \o <<"optimise_control_points">>

\* generate_from_data for a JSON object
generate_from_object(n, objs, nms_data) ==
    LET before == copy_fields_before_owner(n, nms_data)
        owner == IF "Owner" \in DOMAIN nms_data
                 THEN copy_owner(before, nms_data.Owner, OwnerKeys)
                 ELSE [nms |-> before, raised |-> FALSE]
        after == copy_fields_after_owner(owner.nms, nms_data)
        built == build_parts_from_dict(objs, nms_data)
        presets == IF "Presets" \in DOMAIN nms_data
                   THEN build_presets_from_dict(built, nms_data) ELSE built
    IN  IF owner.raised
        THEN Outcome(owner.nms, objs, "raised", <<"new_file", "copy_fields">>)
        ELSE Outcome(after, optimise_control_points(presets), "ok",
                     <<"new_file", "copy_fields">> \o build_steps(nms_data))

\* NMSSettings.generate_from_data(nms_data).  nms_data is what json.loads
\* returned: [t |-> "object", doc |-> ...], or a JSON array, string or
\* number.  `key in nms_data` is False on an array, is a substring test on
\* a string, and raises TypeError on a number.
generate_from_data(n, objs, nms_data) ==
    LET n0 == new_file_settings(n)
        o0 == new_file_objects(objs)
    IN  CASE nms_data.t = "object" -> generate_from_object(n0, o0, nms_data.doc)
          [] nms_data.t = "number" ->
                Outcome(n0, o0, "raised", <<"new_file", "copy_fields">>)
          [] OTHER ->
                Outcome(n0, optimise_control_points(o0), "ok",
                        <<"new_file", "copy_fields",
                          "optimise_control_points">>)

\* The Base Record part of generate_data (lines 253-298)
base_data(n) ==
    [BaseVersion |-> 4,
     OriginalBaseVersion |-> n.original_base_version,
     GalacticAddress |-> int_or_text(n.string_address),
     Position |-> n.float_pos,
     Forward |-> n.float_ori,
     UserData |-> 0,
     LastUpdateTimestamp |-> int_or_text(n.string_last_ts),
     RID |-> StrVal(""),
     Owner |-> [UID |-> StrVal(n.string_uid), LID |-> StrVal(n.string_lid),
                USN |-> StrVal(n.string_usn), PTK |-> StrVal(n.string_ptk),
                TS |-> int_or_text(n.string_ts)],
     Name |-> StrVal(n.string_base),
     BaseType |-> [PersistentBaseTypes |-> "HomePlanetBase"],
     LastEditedById |-> StrVal(n.LastEditedById),
     LastEditedByUsername |-> StrVal(n.LastEditedByUsername_value)]

\* data[key] = value
WithKey(data, key, value) ==
    [k \in (DOMAIN data) \cup {key} |-> IF k = key THEN value ELSE data[k]]

\* generate_data raises when the part capture raises
CanGenerateData(objs, capture_presets) == CanGetAllPartData(objs, capture_presets)

\* A faulty variant of generate_data: the presets are captured whatever
\* capture_presets is.
generate_data_with_presets(n, objs, capture_presets) ==
    WithKey(WithKey(base_data(n), "Objects",
                    get_all_part_data(objs, capture_presets)),
            "Presets", get_all_preset_data)

\* NMSSettings.generate_data(capture_presets)
generate_data(n, objs, capture_presets) ==
    LET data == WithKey(base_data(n), "Objects",
                        get_all_part_data(objs, capture_presets))
    IN  IF capture_presets
        THEN WithKey(data, "Presets", get_all_preset_data)
        ELSE data

\* A faulty variant of next_room_vis: it wraps one state early.
next_room_vis_early(room_vis_switch) ==
    IF room_vis_switch < 2 THEN room_vis_switch + 1 ELSE 0

\* The visibility state after one toggle (lines 432-435)
next_room_vis(room_vis_switch) ==
    IF room_vis_switch < 3 THEN room_vis_switch + 1 ELSE 0

\* A faulty variant of toggle_hidden: hidden in the lit state too.
toggle_hidden_lit(room_vis_switch) == ~(room_vis_switch \in {0, 1})

\* Set Hide (lines 451-453)
toggle_hidden(room_vis_switch) == ~(room_vis_switch \in {0, 1, 3})

\* Transparency (lines 456-458)
toggle_show_transparent(room_vis_switch) == room_vis_switch \in {1}

\* Hide Select (lines 461-463)
toggle_hide_select(room_vis_switch) == room_vis_switch \in {1}

\* Set Shading and Toggle lights (lines 441-467)
toggle_shading(room_vis_switch) ==
    [type |-> IF room_vis_switch \in {0, 1, 2} THEN "SOLID" ELSE "MATERIAL",
     engine |-> "BLENDER_EEVEE",
     use_scene_lights |-> room_vis_switch \in {3}]

\* the objects the toggle acts on (lines 476-477)
IsGhosted(ob) ==
    HasTag(ob, "ObjectID") /\ ob.tags["ObjectID"] \in GHOSTED_ITEMS

\* Iterate object for selection (lines 475-486)
toggle_object(ob, room_vis_switch) ==
    IF ~IsGhosted(ob) THEN ob
    ELSE LET is_preset == TagGet(ob, "is_preset", FALSE)
         IN  [ob EXCEPT !.hide_viewport = toggle_hidden(room_vis_switch),
                        !.hide_select =
                            IF ~is_preset
                            THEN toggle_hide_select(room_vis_switch)
                            ELSE ob.hide_select,
                        !.select = FALSE]

RECURSIVE toggle_objects(_, _)
toggle_objects(objs, room_vis_switch) ==
    IF objs = <<>> THEN <<>>
    ELSE <<toggle_object(Head(objs), room_vis_switch)>>
         \o toggle_objects(Tail(objs), room_vis_switch)

\* diffuse_color[3] in hundredths: 0.07 or 1.0 (line 472)
toggle_alpha(room_vis_switch) ==
    IF toggle_show_transparent(room_vis_switch) THEN 7 ELSE 100

-----------------------------------------------------------------------------
(* The state machine *)

\* the record of the last operation: its name, how it ended ("ok",
\* "message" for a message box, "raised" for an exception), the message
\* shown or raised, and its input
Last(op, status, msg, input) ==
    [op |-> op, status |-> status, msg |-> msg, input |-> input]

NoInput == [t |-> "none"]

\* History: the run of consecutive toggles in progress (how many, and the
\* visibility state it started from), and the value last handed to each
\* part's message setter, by object name; and the names under which the
\* snap cache was written for an object that is still in the scene.
NoRun ==
    [run |-> 0, start |-> 0, set |-> [n \in {} |-> StrVal("")], cached |-> {},
     steps |-> <<>>]

\* an operation other than the toggle ends the run; steps are those of
\* the last operation, when it was a call of generate_from_data
EndRun(h) == [h EXCEPT !.run = 0, !.start = 0, !.steps = <<>>]

\* the history after objects were deleted: kept are the objects of these
\* names
Surviving(h, names) == [h EXCEPT !.cached = @ \cap names]

\* the history after a call of snap_objects that returned ret
Cached(h, ret, names) ==
    IF ret = "True" THEN [h EXCEPT !.cached = @ \cup names] ELSE h

\* the classes of the add-on, in the order of the `classes` tuple
classes ==
    <<"NMSSettings", "Snap", "Point", "Connect", "Divide", "Split",
      "LogicButton", "LogicWallSwitch", "LogicProxSwitch", "LogicInvSwitch",
      "LogicAutoSwitch", "LogicFloorSwitch", "ApplyColour", "Duplicate",
      "DuplicateAlongCurve", "SaveAsPreset", "ToggleRoom", "NewFile",
      "SaveData", "LoadData", "ExportData", "ImportData", "PartCollection",
      "ListDeleteOperator", "ListEditOperator", "ListBuildOperator",
      "NMS_UL_actions_list", "NMS_PT_file_buttons_panel",
      "NMS_PT_base_prop_panel", "NMS_PT_snap_panel", "NMS_PT_colour_panel",
      "NMS_PT_logic_panel", "NMS_PT_build_panel">>

\* What the add-on holds in the host: the keys of preview_collections, the
\* number of preview collections the host keeps alive, the classes
\* registered (in registration order), the classes the last unregister()
\* took out (in the order it did), the fields installed on bpy.types.Scene.
NoAddon ==
    [preview_collections |-> {}, previews |-> 0, registered |-> <<>>,
     unregistered |-> <<>>, scene_fields |-> {}]

\* for _class in classes: bpy.utils.register_class(_class)
RECURSIVE register_classes(_, _)
register_classes(registered, k) ==
    IF k > Len(classes) THEN registered
    ELSE register_classes(Append(registered, classes[k]), k + 1)

\* register(), lines 1417-1438
register(a) ==
    [preview_collections |-> a.preview_collections \cup {"main"},
     previews |-> a.previews + 1,
     registered |-> register_classes(a.registered, 1),
     unregistered |-> <<>>,
     scene_fields |-> a.scene_fields \cup {"nms_base_tool", "col", "col_idx"}]

\* the sequence without its entries equal to value
RECURSIVE Without(_, _)
Without(seq, value) ==
    IF seq = <<>> THEN <<>>
    ELSE IF Head(seq) = value THEN Without(Tail(seq), value)
    ELSE <<Head(seq)>> \o Without(Tail(seq), value)

\* for _class in reversed(classes): bpy.utils.unregister_class(_class)
RECURSIVE unregister_classes(_, _)
unregister_classes(a, k) ==
    IF k = 0 THEN a
    ELSE unregister_classes(
            [a EXCEPT !.registered = Without(@, classes[k]),
                      !.unregistered = Append(@, classes[k])],
            k - 1)

\* unregister(), lines 1443-1449
unregister(a) ==
    LET released == [a EXCEPT
                        !.previews = @ - Cardinality(a.preview_collections),
                        !.preview_collections = {},
                        !.unregistered = <<>>]
        removed == unregister_classes(released, Len(classes))
    IN  [removed EXCEPT !.scene_fields = @ \ {"nms_base_tool"}]

Init ==
    /\ addon = register(NoAddon)
    /\ objects = <<>>
    /\ nms = DefaultSettings
    /\ part_order = 0
    /\ shading = [type |-> "SOLID", engine |-> "BLENDER_EEVEE",
                  use_scene_lights |-> FALSE]
    /\ material_alpha = 100
    /\ snap_cache = [n \in {} |-> NoRef]
    /\ file = [t |-> "absent"]
    /\ last = Last("init", "ok", "", NoInput)
    /\ hist = NoRun

\* NewFile.execute -> NMSSettings.new_file
NewFile ==
    /\ nms' = new_file_settings(nms)
    /\ part_order' = 0
    /\ objects' = new_file_objects(objects)
    /\ last' = Last("new_file", "ok", "", NoInput)
    /\ UNCHANGED addon
    /\ hist' = Surviving(EndRun(hist), Names(new_file_objects(objects)))
    /\ UNCHANGED <<shading, material_alpha, snap_cache, file>>

\* The host enables the add-on: register().  Its last statement calls
\* refresh_ui_part_list() without the scene argument the function requires,
\* which raises TypeError after everything has been installed.
Register ==
    /\ addon.registered = <<>>
    /\ addon' = register(addon)
    /\ last' = Last("register", "raised", "TypeError", NoInput)
    /\ hist' = EndRun(hist)
    /\ UNCHANGED <<objects, nms, part_order, shading, material_alpha,
                   snap_cache, file>>

\* The host disables the add-on: unregister()
Unregister ==
    /\ addon.registered # <<>>
    /\ addon' = unregister(addon)
    /\ last' = Last("unregister", "ok", "", NoInput)
    /\ hist' = EndRun(hist)
    /\ UNCHANGED <<objects, nms, part_order, shading, material_alpha,
                   snap_cache, file>>

\* ToggleRoom.execute -> NMSSettings.toggle_room_visibility
ToggleRoom ==
    LET vis == next_room_vis(nms.room_vis_switch)
    IN  /\ nms' = [nms EXCEPT !.room_vis_switch = vis]
        /\ shading' = toggle_shading(vis)
        /\ material_alpha' = toggle_alpha(vis)
        /\ objects' = toggle_objects(objects, vis)
        /\ last' = Last("toggle_room_visibility", "ok", "", NoInput)
        /\ UNCHANGED addon
        /\ hist' = IF hist.run \in {0, 4}
                   THEN [hist EXCEPT !.run = 1, !.start = nms.room_vis_switch,
                                     !.steps = <<>>]
                   ELSE [hist EXCEPT !.run = hist.run + 1, !.steps = <<>>]
        /\ UNCHANGED <<part_order, snap_cache, file>>

\* the part ids offered by the build list
ListParts == {"CUBEROOM", "LAMP"}

\* ListBuildOperator.execute for a part id: build_item with its default
\* arguments, then snap the new item to the selection there was
ListBuild(part_id) ==
    LET selection == get_current_selection(objects)
        built == build_item(objects, part_id, DefaultTimestamp, 0,
                            DefaultPosition, DefaultUp, DefaultAt)
    IN  /\ Len(objects) + BuiltCount(part_id) <= MaxObjects
        /\ IF selection # 0
           THEN \E snapped \in {snap_objects(built, snap_cache,
                                              Len(objects) + 1, selection,
                                              FALSE, FALSE, FALSE, FALSE)} :
                    /\ objects' = snapped.objects
                    /\ snap_cache' = snapped.snap_cache
           ELSE /\ objects' = built
                /\ UNCHANGED snap_cache
        /\ last' = Last("list_build", "ok", "", [t |-> "part", id |-> part_id])
        /\ UNCHANGED addon
        /\ hist' = EndRun(hist)
        /\ UNCHANGED <<nms, part_order, shading, material_alpha, file>>

\* the ids of the parts placed through the Part model
PlacedParts == {"CUBEROOM", "WALL"}

\* A part instance of the Part model: tagged with its object-type ID, its
\* SnapID (equal to the ID), timestamp, user data and preset membership.
NewPart(objs, id, member) ==
    LET tags == [k \in {"ObjectID", "SnapID", "Timestamp", "UserData",
                        "belongs_to_preset", "is_preset"} |->
                    CASE k \in {"ObjectID", "SnapID"} -> id
                      [] k = "Timestamp" -> DefaultTimestamp
                      [] k = "UserData" -> 0
                      [] OTHER -> member]
    IN  [NewObject(UniqueName(objs, id), "MESH", tags, IdentityMatrix)
            EXCEPT !.lock = "scale", !.material = 0]

\* a part is placed in the scene, on its own or as a member of a preset
PlacePart(id, member) ==
    /\ Len(objects) < MaxObjects
    /\ objects' = AddObject(objects, NewPart(objects, id, member))
    /\ last' = Last("place_part", "ok", "", [t |-> "part", id |-> id])
    /\ UNCHANGED addon
    /\ hist' = EndRun(hist)
    /\ UNCHANGED <<nms, part_order, shading, material_alpha, snap_cache, file>>

\* PresetBuilder.build_preset(name): the root object of a placed preset,
\* appended to the scene
build_preset(objs, preset_id) ==
    AddObject(objs, NewObject(UniqueName(objs, "PRESET"), "EMPTY",
                              [k \in {"PresetID"} |-> preset_id], IdentityMatrix))

\* the user builds the preset from the build list
BuildPreset ==
    /\ Len(objects) < MaxObjects
    /\ objects' = build_preset(objects, "PRESET")
    /\ last' = Last("build_preset", "ok", "", NoInput)
    /\ UNCHANGED addon
    /\ hist' = EndRun(hist)
    /\ UNCHANGED <<nms, part_order, shading, material_alpha, snap_cache, file>>

\* The user changes the selection in the viewport; objects that are
\* hidden or not selectable cannot be picked.
SelectObjects(idx) ==
    /\ \A i \in idx : ~objects[i].hide_viewport /\ ~objects[i].hide_select
    /\ objects' = select(objects, idx)
    /\ objects' # objects
    /\ last' = Last("select", "ok", "", NoInput)
    /\ UNCHANGED addon
    /\ hist' = EndRun(hist)
    /\ UNCHANGED <<nms, part_order, shading, material_alpha, snap_cache, file>>

\* one entry of an "Objects" array
PartEntry(id, position) ==
    [ObjectID |-> Caret(id), Position |-> position, Up |-> DefaultUp,
     At |-> DefaultAt, Timestamp |-> 7, UserData |-> 3]

\* json.loads of a text holding a JSON object
JsonObject(doc) == [t |-> "object", doc |-> doc]

\* a complete Base Record, as the save editor shows it
FullDoc ==
    [GalacticAddress |-> IntVal("5"), Position |-> Vec(1, 2, 3),
     Forward |-> Vec(0, 0, 1), Name |-> StrVal("Home"),
     LastUpdateTimestamp |-> IntVal("12"),
     Owner |-> [UID |-> StrVal("u"), LID |-> StrVal("l"), USN |-> StrVal("n"),
                PTK |-> StrVal("p"), TS |-> IntVal("12")],
     LastEditedById |-> StrVal("e"), LastEditedByUsername |-> StrVal("n"),
     OriginalBaseVersion |-> 4]

\* The documents a user may paste: complete, with only some top-level
\* fields, with an Owner block that lacks fields, with objects to build.
DocInputs ==
    {FullDoc,
     [Name |-> StrVal("Home")],
     [GalacticAddress |-> StrVal("0x1A"), OriginalBaseVersion |-> 4],
     [Name |-> StrVal("Home"), Owner |-> [UID |-> StrVal("u")]],
     [Objects |-> <<PartEntry("CUBEROOM", Vec(1, 0, 0))>>]}

\* What the clipboard may hold: a text that is not JSON, or a JSON value
ClipboardInputs ==
    {[t |-> "malformed"], [t |-> "array"], [t |-> "number"]}
        \cup {JsonObject(d) : d \in DocInputs}

ImportError == "Could not import base data, are you sure you copied the data to the clipboard?"

LoadError == "Could not load base data, are you sure you chose the correct file?"

\* ImportData.execute -> NMSSettings.import_nms_data, with the clipboard
\* holding clipboard_data
ImportData(clipboard_data) ==
    IF clipboard_data.t = "malformed"
    THEN /\ last' = Last("import_nms_data", "raised", ImportError,
                         clipboard_data)
         /\ UNCHANGED addon
         /\ hist' = EndRun(hist)
         /\ UNCHANGED <<objects, nms, part_order, shading,
                        material_alpha, snap_cache, file>>
    ELSE \E result \in {generate_from_data(nms, objects, clipboard_data)} :
             /\ Len(result.objects) <= MaxObjects
             /\ nms' = result.nms
             /\ objects' = result.objects
             /\ part_order' = 0
             /\ last' = Last("import_nms_data", result.status, "",
                             clipboard_data)
             /\ UNCHANGED addon
             /\ hist' = [Surviving(EndRun(hist),
                                   Names(new_file_objects(objects)))
                            EXCEPT !.steps = result.steps]
             /\ UNCHANGED <<shading, material_alpha, snap_cache, file>>

\* SaveData.execute -> NMSSettings.save_nms_data: the file is written
\* only when generate_data returned
SaveData ==
    /\ IF CanGenerateData(objects, TRUE)
       THEN /\ file' = [t |-> "object", doc |-> generate_data(nms, objects, TRUE)]
            /\ last' = Last("save_nms_data", "ok", "", NoInput)
       ELSE /\ UNCHANGED file
            /\ last' = Last("save_nms_data", "raised", "KeyError", NoInput)
    /\ UNCHANGED addon
    /\ hist' = EndRun(hist)
    /\ UNCHANGED <<objects, nms, part_order, shading, material_alpha, snap_cache>>

\* ExportData.execute -> NMSSettings.export_nms_data: generate_data() with
\* its default capture_presets=False, written to the clipboard as JSON
\* text.  The record of the call holds what the clipboard then holds.
ExportData ==
    /\ IF CanGenerateData(objects, FALSE)
       THEN last' = Last("export_nms_data", "ok", "",
                         JsonObject(generate_data(nms, objects, FALSE)))
       ELSE last' = Last("export_nms_data", "raised", "KeyError", NoInput)
    /\ UNCHANGED addon
    /\ hist' = EndRun(hist)
    /\ UNCHANGED <<objects, nms, part_order, shading, material_alpha,
                   snap_cache, file>>

\* the texts a user may type in the Galactic Address field
AddressTexts == {"5", " 5", "0x1A"}

\* The base properties panel: the user edits the Galactic Address field
EditAddress(text) ==
    /\ nms.string_address # text
    /\ nms' = [nms EXCEPT !.string_address = text]
    /\ last' = Last("edit_address", "ok", "", NoInput)
    /\ UNCHANGED addon
    /\ hist' = EndRun(hist)
    /\ UNCHANGED <<objects, part_order, shading, material_alpha, snap_cache, file>>

\* Documents whose address and timestamps are numbers, texts of numbers,
\* and texts that are not numbers
ExportDocs ==
    {FullDoc,
     [GalacticAddress |-> StrVal("0x1A"), LastUpdateTimestamp |-> StrVal(" 5"),
      Owner |-> [UID |-> StrVal("u"), LID |-> StrVal("l"), USN |-> StrVal("n"),
                 PTK |-> StrVal("p"), TS |-> StrVal("soon")],
      OriginalBaseVersion |-> 2],
     [Objects |-> <<PartEntry("WALL", Vec(1, 0, 0))>>]}

\* Part ids as texts: a catalog id, and an id that has a "^" inside
MarkerIds == {<<"WALL">>, <<"CUBEROOM">>, <<"W", "^", "ALL">>}

\* an entry whose ObjectID is "^" followed by the id
MarkerEntry(id, position) ==
    [ObjectID |-> <<"^">> \o id, Position |-> position, Up |-> DefaultUp,
     At |-> DefaultAt, Timestamp |-> 7, UserData |-> 3]

\* documents with one or two such entries
MarkerDocs ==
    LET entries == {MarkerEntry(id, position) :
                        id \in MarkerIds,
                        position \in {Vec(0, 0, 0), Vec(1, 0, 0)}}
    IN  {[Objects |-> <<e>>] : e \in entries}
            \cup {[Objects |-> <<e, f>>] : e \in entries, f \in entries}

\* the files a user may choose to load: the one save_nms_data wrote, or a
\* file that does not hold JSON
FileChoices == {"saved", "other"}

FileContent(choice) == IF choice = "saved" THEN file ELSE [t |-> "malformed"]

\* LoadData.execute -> NMSSettings.load_nms_data(file_path)
LoadData(choice) ==
    \E save_data \in {FileContent(choice)} :
        /\ save_data.t # "absent"
        /\ IF save_data.t = "malformed"
           THEN /\ last' = Last("load_nms_data", "raised", LoadError, save_data)
                /\ UNCHANGED addon
                /\ hist' = EndRun(hist)
                /\ UNCHANGED <<objects, nms, part_order, shading,
                               material_alpha, snap_cache, file>>
           ELSE \E result \in {generate_from_data(nms, objects, save_data)} :
                /\ Len(result.objects) <= MaxObjects
                /\ nms' = result.nms
                /\ objects' = result.objects
                /\ part_order' = 0
                /\ last' = Last("load_nms_data", result.status, "", save_data)
                /\ UNCHANGED addon
                /\ hist' = [Surviving(EndRun(hist),
                                      Names(new_file_objects(objects)))
                               EXCEPT !.steps = result.steps]
                /\ UNCHANGED <<shading, material_alpha, snap_cache, file>>

-----------------------------------------------------------------------------
(* The snap command (__init__.py) *)

\* the flag a variant of the Snap operator sets; "none" is the plain snap
SnapFlags == {"none", "next_source", "prev_source", "next_target", "prev_target"}

SnapMessage == "Make sure you have two items selected. Select the item you want to snap to, then the item you want to snap."

\* no snap call came before
NoCall == [source |-> 0, target |-> 0, flag |-> "", ret |-> "",
           target_key |-> None]

\* every object lies within the modelled space
InSpace(objs) ==
    \A i \in Indices(objs) : \A c \in 1..3 :
        objs[i].matrix_world.pos[c] \in (0 - MaxCoord)..MaxCoord

\* Snap.execute -> NMSSettings.snap(flag): active is the active object of
\* the view layer, the source; the target is the first selected object
\* that is not the source.  The call is recorded with the source key and
\* the target key it resolved and with the call before it, when that was a
\* snap too.
Snap(active, flag) ==
    LET selected_objects == SelectedIdx(objects)
        others == selected_objects \ {active}
        target_object == CHOOSE t \in others : \A u \in others : t <= u
        previous == IF last.op = "snap" /\ last.status = "ok"
                    THEN [source |-> last.input.source,
                          target |-> last.input.target,
                          flag |-> last.input.flag,
                          ret |-> last.input.ret,
                          target_key |-> last.input.target_key]
                    ELSE NoCall
    IN  IF Cardinality(selected_objects) # 2
        THEN /\ last' = Last("snap", "message", SnapMessage, NoInput)
             /\ UNCHANGED addon
             /\ hist' = EndRun(hist)
             /\ UNCHANGED <<objects, nms, part_order, shading, material_alpha,
                            snap_cache, file>>
        ELSE \E result \in {snap_objects(objects, snap_cache, active,
                                          target_object,
                                          flag = "next_source",
                                          flag = "prev_source",
                                          flag = "next_target",
                                          flag = "prev_target")} :
             /\ InSpace(result.objects)
             /\ objects' = result.objects
             /\ snap_cache' = result.snap_cache
             /\ last' = Last("snap", "ok", "",
                             [t |-> "snap", source |-> active,
                              target |-> target_object, flag |-> flag,
                              ret |-> result.ret,
                              source_key |-> result.source_key,
                              target_key |-> result.target_key,
                              previous |-> previous])
             /\ UNCHANGED addon
             /\ hist' = Cached(EndRun(hist), result.ret,
                               {objects[active].name,
                                objects[target_object].name})
             /\ UNCHANGED <<nms, part_order, shading, material_alpha, file>>

-----------------------------------------------------------------------------
(* Duplicate along curve, divide and split (__init__.py) *)

\* the user moves an object in the viewport with the host's own tools
MoveObject(i, position) ==
    /\ objects[i].matrix_world.pos # position
    /\ objects' = [objects EXCEPT ![i].matrix_world.pos = position]
    /\ last' = Last("move", "ok", "", NoInput)
    /\ UNCHANGED addon
    /\ hist' = EndRun(hist)
    /\ UNCHANGED <<nms, part_order, shading, material_alpha, snap_cache, file>>

\* the filters handed to get_closest_snap_points: none, and texts that
\* some, one or no point name contains
PointFilters == {<<>>, <<"T">>, <<"O", "T">>, <<"X">>}

\* A call of SNAPPER.get_closest_snap_points on two objects of the scene
ClosestSnapPoints(s, t, source_filter, target_filter) ==
    /\ s # t
    /\ \E result \in {get_closest_snap_points(objects[s], objects[t],
                                               source_filter, target_filter)} :
            last' = Last("get_closest_snap_points", result.status,
                         result.error,
                         [t |-> "closest", source |-> s, target |-> t,
                          source_filter |-> source_filter,
                          target_filter |-> target_filter,
                          source_key |-> result.source_key,
                          target_key |-> result.target_key])
    /\ UNCHANGED addon
    /\ hist' = EndRun(hist)
    /\ UNCHANGED <<objects, nms, part_order, shading, material_alpha,
                   snap_cache, file>>

\* ---- the part list of the build panel ----

\* sorted(parts): the part ids in string order
SortedParts == <<"BASE_FLAG", "CUBEROOM", "LAMP", "WALL">>

InParts(parts) == [id \in Elements(SortedParts) |-> id \in parts]

sorted(parts) ==
    LET member == InParts(parts)
        Kept(id) == member[id]
    IN  SelectSeq(SortedParts, Kept)

\* A catalogue is the model directory: the categories in listing order and
\* the parts of each; a category can be an empty directory.
CategoryNames == {"BASIC", "DECORATION"}

CategoryLists ==
    {<<>>} \cup {<<c>> : c \in CategoryNames}
           \cup {cs \in CategoryNames \X CategoryNames : cs[1] # cs[2]}

Catalogues ==
    {[categories |-> cs, category |-> of] :
        cs \in CategoryLists,
        of \in [Elements(SortedParts) -> CategoryNames \cup {None}]}

\* PartBuilder.get_categories()
get_categories(catalogue) == catalogue.categories

\* PartBuilder.get_parts_from_category(category)
get_parts_from_category(catalogue, category) ==
    sorted({id \in Elements(SortedParts) : catalogue.category[id] = category})

\* PresetBuilder.get_presets(): the names of the saved presets
PresetLists ==
    {<<>>, <<"HOUSE">>, <<"HOUSE", "TOWER">>}

\* the characters of a text that holds no separator: an id is one token
TextOf(string) == IF string = "" THEN <<>> ELSE <<string>>

\* separator.join(items)
RECURSIVE join(_, _)
join(separator, items) ==
    IF items = <<>> THEN <<>>
    ELSE IF Len(items) = 1 THEN TextOf(items[1])
    ELSE TextOf(items[1]) \o <<separator>> \o join(separator, Tail(items))

\* the padding loop of create_sublists
RECURSIVE pad(_, _)
pad(last_list, n) ==
    IF Len(last_list) < n THEN pad(Append(last_list, ""), n) ELSE last_list

\* create_sublists(input_list, n): the slices of n elements, the last one
\* filled with "".  total_list[-1] raises IndexError on an empty list.
create_sublists(input_list, n) ==
    LET count == (Len(input_list) + n - 1) \div n
        total_list == [k \in 1..count |->
                          SubSeq(input_list, (k - 1) * n + 1,
                                 IF k * n < Len(input_list) THEN k * n
                                 ELSE Len(input_list))]
    IN  IF total_list = <<>>
        THEN [status |-> "raised", error |-> "IndexError", lists |-> <<>>]
        ELSE [status |-> "ok", error |-> "",
              lists |-> [total_list EXCEPT ![count] = pad(@, n)]]

\* the rows of one category: its header, then the joined sublists
RECURSIVE joined_rows(_)
joined_rows(new_parts) ==
    IF new_parts = <<>> THEN <<>>
    ELSE <<(<<"", join(",", Head(new_parts))>>)>> \o joined_rows(Tail(new_parts))

RECURSIVE category_rows(_, _, _)
category_rows(catalogue, categories, ui_list_data) ==
    IF categories = <<>>
    THEN [status |-> "ok", error |-> "", rows |-> ui_list_data]
    ELSE LET category == Head(categories)
             new_parts == create_sublists(
                              get_parts_from_category(catalogue, category), 3)
         IN  IF new_parts.status = "raised"
             THEN [status |-> "raised", error |-> new_parts.error, rows |-> <<>>]
             ELSE category_rows(catalogue, Tail(categories),
                      ui_list_data \o <<(<<category, <<>> >>)>>
                                   \o joined_rows(new_parts.lists))

RECURSIVE preset_rows(_)
preset_rows(presets) ==
    IF presets = <<>> THEN <<>>
    ELSE <<(<<"", TextOf(Head(presets))>>)>> \o preset_rows(Tail(presets))

\* generate_ui_list_data(item_type): rows of <<label, description>>
generate_ui_list_data(item_type, catalogue, presets) ==
    IF item_type = "presets"
    THEN [status |-> "ok", error |-> "",
          rows |-> <<(<<"Presets", <<>> >>)>> \o preset_rows(presets)]
    ELSE category_rows(catalogue, get_categories(catalogue), <<>>)

\* A call of generate_ui_list_data, as refresh_ui_part_list makes it
GenerateUiListData(item_type, catalogue, presets) ==
    /\ \E result \in {generate_ui_list_data(item_type, catalogue, presets)} :
            last' = Last("generate_ui_list_data", result.status, result.error,
                         [t |-> "ui_list", item_type |-> item_type,
                          catalogue |-> catalogue, presets |-> presets,
                          rows |-> result.rows])
    /\ UNCHANGED addon
    /\ hist' = EndRun(hist)
    /\ UNCHANGED <<objects, nms, part_order, shading, material_alpha,
                   snap_cache, file>>

\* the user adds a curve to the scene with the host's own tools
AddCurve ==
    /\ Len(objects) < MaxObjects
    /\ objects' = AddObject(objects,
                    NewObject(UniqueName(objects, "Curve"), "CURVE", NoTags,
                              IdentityMatrix))
    /\ last' = Last("add_curve", "ok", "", NoInput)
    /\ UNCHANGED addon
    /\ hist' = EndRun(hist)
    /\ UNCHANGED <<nms, part_order, shading, material_alpha, snap_cache, file>>

\* Distance percentages are held in tenths: One is 1.0
One == 10

\* the values a user may enter in the distance prompt, in tenths
Percentages == {0 - 1, 0, 5, One, One + 1}

TwoItemsMessage == "Make sure you have two items selected. Select the item to duplicate, then the curve you want to snap to."

RangeMessage == "Please choose a value between 0 and 1."

\* A faulty variant of range_rejected: the end points 0.0 and 1.0 pass.
range_rejected_open(distance_percentage) ==
    distance_percentage < 0 \/ distance_percentage > One

\* Validate gap_distance (lines 528-535): either test rejects
range_rejected(distance_percentage) ==
    distance_percentage <= 0 \/ distance_percentage >= One

\* curve.duplicate_along_curve(part_builder, preset_builder, dup_object,
\* curve_object, distance_percentage): a fresh instance of the same part or
\* preset, placed on the curve at that share of its length (the curve runs
\* one unit along X from its origin; positions in tenths).
curve_duplicate_along_curve(objs, dup_object, curve_object, distance_percentage) ==
    LET dup == objs[dup_object]
        curve_matrix == objs[curve_object].matrix_world
        place == [curve_matrix EXCEPT
                    !.pos = VAdd(curve_matrix.pos,
                                 Vec(distance_percentage, 0, 0))]
    IN  IF HasTag(dup, "ObjectID")
        THEN AddObject(objs, [NewPart(objs, dup.tags["ObjectID"], FALSE)
                                EXCEPT !.matrix_world = place])
        ELSE IF HasTag(dup, "PresetID")
        THEN AddObject(objs,
                NewObject(UniqueName(objs, "PRESET"), "EMPTY",
                          [k \in {"PresetID"} |-> dup.tags["PresetID"]], place))
        ELSE objs

\* DuplicateAlongCurve.execute -> NMSSettings.duplicate_along_curve.
\* selected_objects is taken in scene order.  The record of the call says
\* whether the curve routine was invoked.
DuplicateAlongCurve(distance_percentage) ==
    LET selected_objects == SelectedIdx(objects)
        first == CHOOSE i \in selected_objects :
                    \A j \in selected_objects : i <= j
        second == CHOOSE i \in selected_objects :
                    \A j \in selected_objects : j <= i
        dup_first == HasTag(objects[first], "ObjectID")
                        \/ HasTag(objects[first], "PresetID")
        dup_object == IF dup_first THEN first ELSE second
        curve_object == IF dup_first THEN second ELSE first
        call(invoked) == [t |-> "percentage",
                          distance_percentage |-> distance_percentage,
                          invoked |-> invoked]
    IN  IF Cardinality(selected_objects) # 2
        THEN /\ last' = Last("duplicate_along_curve", "message",
                             TwoItemsMessage, call(FALSE))
             /\ UNCHANGED addon
             /\ hist' = EndRun(hist)
             /\ UNCHANGED <<objects, nms, part_order, shading, material_alpha,
                            snap_cache, file>>
        ELSE IF range_rejected(distance_percentage)
        THEN /\ last' = Last("duplicate_along_curve", "message",
                             RangeMessage, call(FALSE))
             /\ UNCHANGED addon
             /\ hist' = EndRun(hist)
             /\ UNCHANGED <<objects, nms, part_order, shading, material_alpha,
                            snap_cache, file>>
        ELSE /\ Len(objects) < MaxScene
             /\ objects' = curve_duplicate_along_curve(objects, dup_object,
                                curve_object, distance_percentage)
             /\ last' = Last("duplicate_along_curve", "ok", "", call(TRUE))
             /\ UNCHANGED addon
             /\ hist' = EndRun(hist)
             /\ UNCHANGED <<nms, part_order, shading, material_alpha,
                            snap_cache, file>>

PowerlineMessage == "Make sure you have a powerline item selected."

\* A control marker put on a line
NewControl(objs, line_type) ==
    NewObject(UniqueName(objs, "CONTROL"), "EMPTY",
              [k \in {"power_control"} |-> line_type], IdentityMatrix)

\* power.divide(target): a new control point at the middle of the line
divide(objs, target) ==
    AddObject(objs, NewControl(objs, objs[target].tags["ObjectID"]))

\* power.split(target, line_type): as divide, with the line type given
split(objs, target, line_type) ==
    AddObject(objs, NewControl(objs, line_type))

\* How the selection test of Divide.execute and Split.execute ends: with
\* nothing selected get_current_selection() is None and None["ObjectID"]
\* raises TypeError; an object without the "ObjectID" tag raises KeyError.
selection_test(objs, target) ==
    IF target = 0 THEN "TypeError"
    ELSE IF ~HasTag(objs[target], "ObjectID") THEN "KeyError"
    ELSE IF objs[target].tags["ObjectID"] \notin LineParts THEN "message"
    ELSE "line"

\* Divide.execute
Divide ==
    LET target == get_current_selection(objects)
        test == selection_test(objects, target)
    IN  /\ IF test = "line"
           THEN /\ Len(objects) < MaxScene
                /\ objects' = divide(objects, target)
                /\ last' = Last("divide", "ok", "", NoInput)
           ELSE /\ UNCHANGED objects
                /\ last' = IF test = "message"
                           THEN Last("divide", "message", PowerlineMessage, NoInput)
                           ELSE Last("divide", "raised", test, NoInput)
        /\ UNCHANGED addon
        /\ hist' = EndRun(hist)
        /\ UNCHANGED <<nms, part_order, shading, material_alpha, snap_cache, file>>

\* Split.execute
Split ==
    LET target == get_current_selection(objects)
        test == selection_test(objects, target)
    IN  /\ IF test = "line"
           THEN /\ Len(objects) < MaxScene
                /\ objects' = split(objects, target,
                                    objects[target].tags["ObjectID"])
                /\ last' = Last("split", "ok", "", NoInput)
           ELSE /\ UNCHANGED objects
                /\ last' = IF test = "message"
                           THEN Last("split", "message", PowerlineMessage, NoInput)
                           ELSE Last("split", "raised", test, NoInput)
        /\ UNCHANGED addon
        /\ hist' = EndRun(hist)
        /\ UNCHANGED <<nms, part_order, shading, material_alpha, snap_cache, file>>

-----------------------------------------------------------------------------
(* Duplicate, apply colour and connect (__init__.py) *)

ItemMessage == "Make sure you have an item selected."

\* NMSSettings.duplicate, lines 497-512, for a selection that is not empty:
\* the scene and the snap cache it leaves, and whether it raised
duplicate(objs, cache) ==
    LET target == get_current_selection(objs)
        \* lines 500-506
        part ==
            IF ~HasTag(objs[target], "ObjectID")
            THEN [objects |-> objs, snap_cache |-> cache, status |-> "ok"]
            ELSE IF ~HasTag(objs[target], "UserData")
            THEN [objects |-> objs, snap_cache |-> cache, status |-> "raised"]
            ELSE Value({[objects |-> snapped.objects,
                         snap_cache |-> snapped.snap_cache, status |-> "ok"] :
                        snapped \in
                            {snap_objects(built, cache, Len(objs) + 1, target,
                                          FALSE, FALSE, FALSE, FALSE) :
                                built \in
                                    {build_item(objs,
                                                objs[target].tags["ObjectID"],
                                                DefaultTimestamp,
                                                objs[target].tags["UserData"],
                                                DefaultPosition, DefaultUp,
                                                DefaultAt)}}})
        \* lines 507-512
        preset(p) ==
            IF p.status = "raised" \/ ~HasTag(objs[target], "PresetID") THEN p
            ELSE Value({[objects |-> snapped.objects,
                         snap_cache |-> snapped.snap_cache, status |-> "ok"] :
                        snapped \in
                            {snap_objects(built, p.snap_cache, Len(built),
                                          target, FALSE, FALSE, FALSE, FALSE) :
                                built \in
                                    {build_preset(p.objects,
                                                  objs[target].tags["PresetID"])}}})
    IN  Value({preset(p) : p \in {part}})

\* Duplicate.execute -> NMSSettings.duplicate
Duplicate ==
    IF SelectedIdx(objects) = {}
    THEN /\ last' = Last("duplicate", "message", ItemMessage, NoInput)
         /\ UNCHANGED addon
         /\ hist' = EndRun(hist)
         /\ UNCHANGED <<objects, nms, part_order, shading, material_alpha,
                        snap_cache, file>>
    ELSE \E result \in {duplicate(objects, snap_cache)} :
         /\ Len(result.objects) <= MaxScene
         /\ objects' = result.objects
         /\ snap_cache' = result.snap_cache
         /\ last' = Last("duplicate", result.status,
                         IF result.status = "raised" THEN "KeyError" ELSE "",
                         NoInput)
         /\ UNCHANGED addon
         /\ hist' = [EndRun(hist) EXCEPT !.cached =
                        @ \cup {n \in DOMAIN result.snap_cache :
                                    n \notin DOMAIN snap_cache
                                        \/ result.snap_cache[n] # snap_cache[n]}]
         /\ UNCHANGED <<nms, part_order, shading, material_alpha, file>>

\* the colour indices of the swatches offered
ColourIndices == {3}

\* NMSSettings.apply_colour, lines 558-560: every selected object takes
\* the colour
RECURSIVE apply_colour(_, _)
apply_colour(objs, colour_index) ==
    IF objs = <<>> THEN <<>>
    ELSE <<IF Head(objs).select
           THEN assign_material(Head(objs), colour_index) ELSE Head(objs)>>
         \o apply_colour(Tail(objs), colour_index)

\* ApplyColour.execute -> NMSSettings.apply_colour
ApplyColour(colour_index) ==
    /\ IF SelectedIdx(objects) = {}
       THEN /\ last' = Last("apply_colour", "message", ItemMessage, NoInput)
            /\ UNCHANGED objects
       ELSE /\ last' = Last("apply_colour", "ok", "",
                            [t |-> "colour", colour_index |-> colour_index])
            /\ objects' = apply_colour(objects, colour_index)
    /\ UNCHANGED addon
    /\ hist' = EndRun(hist)
    /\ UNCHANGED <<nms, part_order, shading, material_alpha, snap_cache, file>>

PointsMessage == "Make sure you have two electric points selected."

CompatibleMessage == "These two items are not compatible to connect."

\* power.generate_control_points(start, end): the pair when the two objects
\* are endpoints a line can join (parts and control markers), else
\* (None, None)
generate_control_points(objs, start, end) ==
    LET endpoint(ob) == HasTag(ob, "ObjectID") \/ HasTag(ob, "power_control")
    IN  IF endpoint(objs[start]) /\ endpoint(objs[end])
        THEN <<start, end>> ELSE <<0, 0>>

\* Connect.execute, lines 1213-1228: a line part of the type the start
\* names, the power line by default, is built; power.create_power_controls
\* binds it to the two endpoints
connect(objs, start, end) ==
    LET line_object == TagGet(objs[start], "power_line", "U_POWERLINE")
    IN  build_item(objs, line_object, DefaultTimestamp, 0,
                   DefaultPosition, DefaultUp, DefaultAt)

\* A faulty variant of connect_selection_rejected: only a selection of
\* fewer than two objects is rejected.
connect_selection_rejected_below(objs) == Cardinality(SelectedIdx(objs)) < 2

\* Validate selection (lines 1193-1194)
connect_selection_rejected(objs) == Cardinality(SelectedIdx(objs)) # 2

\* Connect.execute
Connect ==
    LET selected_objects == SelectedIdx(objects)
        first == CHOOSE i \in selected_objects :
                    \A j \in selected_objects : i <= j
        second == CHOOSE i \in selected_objects :
                    \A j \in selected_objects : j <= i
    IN  /\ IF connect_selection_rejected(objects)
           THEN /\ last' = Last("connect", "message", PointsMessage, NoInput)
                /\ UNCHANGED objects
           ELSE \E points \in {generate_control_points(objects, first, second)} :
                IF points[1] = 0 /\ points[2] = 0
                THEN /\ last' = Last("connect", "message", CompatibleMessage,
                                     NoInput)
                     /\ UNCHANGED objects
                ELSE /\ Len(objects) < MaxScene
                     /\ objects' = connect(objects, points[1], points[2])
                     /\ last' = Last("connect", "ok", "", NoInput)
        /\ UNCHANGED addon
        /\ hist' = EndRun(hist)
        /\ UNCHANGED <<nms, part_order, shading, material_alpha, snap_cache, file>>

-----------------------------------------------------------------------------
(* Part model and the MESSAGEMODULE override (part_overrides) *)

\* the object-type ids the registry binds to the MESSAGEMODULE override
PART_OVERRIDES == {"MESSAGEMODULE"}

\* dict.get(key, default) on part data
DataGet(data, key, default) ==
    IF key \in DOMAIN data THEN data[key] ELSE default

\* Part.serialise: the base fields of a part
serialise(ob) ==
    [ObjectID |-> Caret(ob.tags["ObjectID"]),
     Position |-> RotXNeg90(ob.matrix_world.pos),
     Up |-> RotXNeg90(ob.matrix_world.up),
     At |-> RotXNeg90(ob.matrix_world.at),
     Timestamp |-> ob.tags["Timestamp"],
     UserData |-> ob.tags["UserData"]]

\* Part.deserialise_from_data: the part is built from the base fields and
\* is the last object of the scene
deserialise_from_data(objs, data) ==
    AddObject(objs,
        [NewPart(objs, replace_caret(data.ObjectID), FALSE) EXCEPT
            !.matrix_world = move_to(data.Position, data.Up, data.At),
            !.tags = [@ EXCEPT !["Timestamp"] = data.Timestamp,
                               !["UserData"] = data.UserData]])

\* MESSAGEMODULE.message (getter)
message(object) == TagGet(object, "Message", "")

\* MESSAGEMODULE.message (setter)
set_message(object, value) == SetTag(object, "Message", str(value))

\* A faulty variant of MESSAGEMODULE.serialise: only the base fields.
MESSAGEMODULE_serialise_base(ob) == serialise(ob)

\* MESSAGEMODULE.serialise
MESSAGEMODULE_serialise(ob) ==
    WithKey(serialise(ob), "Message", StrVal(message(ob)))

\* MESSAGEMODULE.deserialise_from_data
MESSAGEMODULE_deserialise_from_data(objs, data) ==
    LET built == deserialise_from_data(objs, data)
        part == Len(built)
    IN  [built EXCEPT ![part] =
            set_message(@, DataGet(data, "Message", StrVal("")))]

\* serialisation goes to the variant the registry holds for the part's id
dispatch_serialise(ob) ==
    IF ob.tags["ObjectID"] \in PART_OVERRIDES
    THEN MESSAGEMODULE_serialise(ob) ELSE serialise(ob)

dispatch_deserialise(objs, data) ==
    IF replace_caret(data.ObjectID) \in PART_OVERRIDES
    THEN MESSAGEMODULE_deserialise_from_data(objs, data)
    ELSE deserialise_from_data(objs, data)

\* the values a message may be set to: texts and a number
MessageValues == {StrVal("hi"), StrVal(""), IntVal("5")}

\* part data to deserialise: with and without a "Message" field
PartDatas ==
    LET base(id) == [ObjectID |-> Caret(id), Position |-> ZeroVec,
                     Up |-> DefaultUp, At |-> DefaultAt,
                     Timestamp |-> 7, UserData |-> 3]
    IN  {base("MESSAGEMODULE"), base("WALL")}
        \cup {WithKey(base(id), "Message", v) :
                id \in {"MESSAGEMODULE", "WALL"}, v \in {StrVal("hi"), IntVal("5")}}

\* part.message = value on a part of the override class
SetMessage(i, value) ==
    /\ HasTag(objects[i], "ObjectID")
    /\ objects[i].tags["ObjectID"] \in PART_OVERRIDES
    /\ objects' = [objects EXCEPT ![i] = set_message(@, value)]
    /\ last' = Last("set_message", "ok", "", NoInput)
    /\ UNCHANGED addon
    /\ hist' = [EndRun(hist) EXCEPT !.set = WithKey(@, objects[i].name, value)]
    /\ UNCHANGED <<nms, part_order, shading, material_alpha, snap_cache, file>>

\* part.serialise() on the part of an object
Serialise(i) ==
    /\ HasTag(objects[i], "ObjectID")
    /\ last' = Last("serialise", "ok", "",
                    [t |-> "data", part |-> i,
                     data |-> dispatch_serialise(objects[i])])
    /\ UNCHANGED addon
    /\ hist' = EndRun(hist)
    /\ UNCHANGED <<objects, nms, part_order, shading, material_alpha,
                   snap_cache, file>>

\* deserialise_from_data(data) on the class registered for the data's id
Deserialise(data) ==
    LET built == dispatch_deserialise(objects, data)
        part == built[Len(built)]
    IN  /\ Len(objects) < MaxObjects
        /\ objects' = built
        /\ last' = Last("deserialise", "ok", "", [t |-> "data", data |-> data])
        /\ UNCHANGED addon
        /\ hist' = IF part.tags["ObjectID"] \in PART_OVERRIDES
                   THEN [EndRun(hist) EXCEPT !.set =
                            WithKey(@, part.name,
                                    DataGet(data, "Message", StrVal("")))]
                   ELSE EndRun(hist)
        /\ UNCHANGED <<nms, part_order, shading, material_alpha, snap_cache, file>>

-----------------------------------------------------------------------------
(* Specifications *)

\* The document life cycle: building, new file, save and load, import.
Next ==
    \/ NewFile
    \/ \E part_id \in ListParts : ListBuild(part_id)
    \/ \E member \in BOOLEAN : PlacePart("CUBEROOM", member)
    \/ BuildPreset
    \/ ImportData(JsonObject(FullDoc))
    \/ SaveData
    \/ \E choice \in FileChoices : LoadData(choice)

Spec == Init /\ [][Next]_vars

\* Room visibility: the toggle over scenes of placed and built parts.
NextVis ==
    \/ ToggleRoom
    \/ NewFile
    \/ ListBuild("CUBEROOM")
    \/ \E id \in PlacedParts, member \in BOOLEAN : PlacePart(id, member)
    \/ \E idx \in SUBSET Indices(objects) : SelectObjects(idx)

SpecVis == Init /\ [][NextVis]_vars

\* Import and load of every kind of content.
NextImport ==
    \/ \E clipboard_data \in ClipboardInputs : ImportData(clipboard_data)
    \/ \E choice \in FileChoices : LoadData(choice)
    \/ SaveData
    \/ PlacePart("WALL", FALSE)
    \/ ToggleRoom

SpecImport == Init /\ [][NextImport]_vars

\* Snapping placed parts onto one another.
NextSnap ==
    \/ \E id \in PlacedParts : PlacePart(id, FALSE)
    \/ \E idx \in SUBSET Indices(objects) : SelectObjects(idx)
    \/ \E active \in Indices(objects), flag \in SnapFlags : Snap(active, flag)

SpecSnap == Init /\ [][NextSnap]_vars

\* The commands that validate their selection or their parameter.
NextCmd ==
    \/ \E id \in {"CUBEROOM", "U_POWERLINE"} : PlacePart(id, FALSE)
    \/ BuildPreset
    \/ AddCurve
    \/ \E idx \in SUBSET Indices(objects) : SelectObjects(idx)
    \/ \E distance_percentage \in Percentages :
            DuplicateAlongCurve(distance_percentage)
    \/ Divide
    \/ Split

SpecCmd == Init /\ [][NextCmd]_vars

\* Parts of the override class and of the base class.
NextMsg ==
    \/ \E id \in {"MESSAGEMODULE", "WALL"} : PlacePart(id, FALSE)
    \/ \E i \in Indices(objects), value \in MessageValues : SetMessage(i, value)
    \/ \E i \in Indices(objects) : Serialise(i)
    \/ \E data \in PartDatas : Deserialise(data)

SpecMsg == Init /\ [][NextMsg]_vars

\* Export to the clipboard and save to a file, of every Base Record.
NextExport ==
    \/ \E d \in ExportDocs : ImportData(JsonObject(d))
    \/ \E text \in AddressTexts : EditAddress(text)
    \/ ListBuild("CUBEROOM")
    \/ \E member \in BOOLEAN : PlacePart("WALL", member)
    \/ NewFile
    \/ ExportData
    \/ SaveData

SpecExport == Init /\ [][NextExport]_vars

\* The commands that need a selection, over every selection.
NextSel ==
    \/ PlacePart("CUBEROOM", FALSE)
    \/ AddCurve
    \/ \E idx \in SUBSET Indices(objects) : SelectObjects(idx)
    \/ \E active \in Indices(objects) : Snap(active, "none")
    \/ Duplicate
    \/ \E colour_index \in ColourIndices : ApplyColour(colour_index)
    \/ \E distance_percentage \in {5} : DuplicateAlongCurve(distance_percentage)
    \/ Connect

SpecSel == Init /\ [][NextSel]_vars

\* Import and export of object entries.
NextMarker ==
    \/ \E d \in MarkerDocs : ImportData(JsonObject(d))
    \/ ExportData
    \/ NewFile

SpecMarker == Init /\ [][NextMarker]_vars

\* Activation and deactivation of the add-on; its commands can be invoked
\* while its classes are registered.
NextReg ==
    \/ Register
    \/ Unregister
    \/ addon.registered # <<>> /\ ToggleRoom
    \/ addon.registered # <<>> /\ PlacePart("CUBEROOM", FALSE)
    \/ addon.registered # <<>> /\ NewFile

SpecReg == Init /\ [][NextReg]_vars

\* Snapping over every kind of object: parts with and without a snap
\* group, preset roots, objects that are not parts.
NextSnapKinds ==
    \/ \E id \in {"CUBEROOM", "WALL", "SIGN"} : PlacePart(id, FALSE)
    \/ BuildPreset
    \/ AddCurve
    \/ \E i \in Indices(objects) :
            objects[i].kind # "MESH" /\ MoveObject(i, Vec(1, 0, 0))
    \/ \E idx \in SUBSET Indices(objects) : SelectObjects(idx)
    \/ \E active \in Indices(objects), flag \in SnapFlags : Snap(active, flag)

SpecSnapKinds == Init /\ [][NextSnapKinds]_vars

\* Snapping two parts of one snap group that are not the same part.
NextSnapGroup ==
    \/ \E id \in {"CUBEROOM", "CORRIDOR"} : PlacePart(id, FALSE)
    \/ \E idx \in SUBSET Indices(objects) : SelectObjects(idx)
    \/ \E active \in Indices(objects),
          flag \in {"none", "next_target", "prev_target"} : Snap(active, flag)

SpecSnapGroup == Init /\ [][NextSnapGroup]_vars

\* Snapping in one scene after another: the snap cache is kept when a new
\* file is started.
NextSnapCache ==
    \/ \E id \in PlacedParts : PlacePart(id, FALSE)
    \/ NewFile
    \/ \E idx \in SUBSET Indices(objects) : SelectObjects(idx)
    \/ \E active \in Indices(objects), flag \in {"none", "next_source"} :
            Snap(active, flag)

SpecSnapCache == Init /\ [][NextSnapCache]_vars

\* Finding the closest snap points of two parts, near one another or far
\* apart.
NextClosest ==
    \/ \E id \in {"CUBEROOM", "WALL", "LAMP", "SIGN"} : PlacePart(id, FALSE)
    \/ \E i \in Indices(objects),
          position \in {Vec(1, 0, 0), Vec(0, 0, 2), Vec(FarCoord, 0, 0)} :
            MoveObject(i, position)
    \/ \E s \in Indices(objects), t \in Indices(objects),
          source_filter \in PointFilters, target_filter \in PointFilters :
            ClosestSnapPoints(s, t, source_filter, target_filter)

SpecClosest == Init /\ [][NextClosest]_vars

\* The rows of the part list, over every catalogue and preset list.
NextUiList ==
    \/ \E catalogue \in Catalogues :
            GenerateUiListData("parts", catalogue, <<>>)
    \/ \E catalogue \in {c \in Catalogues : c.categories = <<"BASIC">>},
          presets \in PresetLists :
            GenerateUiListData("presets", catalogue, presets)

SpecUiList == Init /\ [][NextUiList]_vars

\* The scenes snap_objects runs on: two placed parts, both selected,
\* of one id or of two groups.
SnapScenes ==
    {select(AddObject(AddObject(<<>>, NewPart(<<>>, a, FALSE)),
                      NewPart(AddObject(<<>>, NewPart(<<>>, a, FALSE)), b, FALSE)),
            {1, 2}) :
        a \in {"CUBEROOM", "WALL"},
        b \in {"CUBEROOM", "WALL"}}

\* The entries earlier snaps can have left in the cache under the name of a
\* part (new_file keeps the cache, and a new part takes the name of a
\* deleted one): none, one written for a target, one written for a source
\* and perhaps written again for a target.
LeftEntries(id) ==
    LET points == get_snap_matrices_from_group(get_snap_group_from_part(id))
    IN  {NoRef}
            \cup {[k \in {"target"} |-> t] : t \in DOMAIN points}
            \cup {[k \in {"source", "target"} |->
                        IF k = "source" THEN st[1] ELSE st[2]] :
                    st \in {p \in (DOMAIN points) \X ((DOMAIN points) \cup {None}) :
                                p[2] = None => points[p[1]].opposite = None}}

LeftCaches(objs) ==
    {[n \in {objs[i].name : i \in {j \in 1..2 : e[j] # NoRef}} |->
            IF n = objs[1].name THEN e[1] ELSE e[2]] :
        e \in LeftEntries(objs[1].tags["SnapID"])
                \X LeftEntries(objs[2].tags["SnapID"])}

InitSnapPairs ==
    /\ addon = register(NoAddon)
    /\ \E objs \in SnapScenes :
            /\ objects = objs
            /\ snap_cache \in LeftCaches(objs)
    /\ nms = DefaultSettings
    /\ part_order = 0
    /\ shading = [type |-> "SOLID", engine |-> "BLENDER_EEVEE",
                  use_scene_lights |-> FALSE]
    /\ material_alpha = 100
    /\ file = [t |-> "absent"]
    /\ last = Last("init", "ok", "", NoInput)
    /\ hist = NoRun

\* Snapping the one part onto the other, with every flag.
NextSnapPairs ==
    \E active \in Indices(objects), flag \in SnapFlags : Snap(active, flag)

SpecSnapPairs == InitSnapPairs /\ [][NextSnapPairs]_vars

\* The Base Record written and read back: saved and loaded, exported and
\* pasted again.
NextRecord ==
    \/ \E d \in ExportDocs : ImportData(JsonObject(d))
    \/ \E text \in AddressTexts : EditAddress(text)
    \/ SaveData
    \/ LoadData("saved")
    \/ ExportData
    \/ /\ last.op = "export_nms_data"
       /\ last.status = "ok"
       /\ ImportData(last.input)

SpecRecord == Init /\ [][NextRecord]_vars

-----------------------------------------------------------------------------
(* Properties *)

\* C1: after new_file() no scene object carries a part, preset, light or
\* base-builder tag, and every Base Record field has its default.  The
\* part tag is "ObjectID" for the commands and "objectID" for build_item.
NewFileCompleteness ==
    last.op = "new_file" =>
        /\ \A i \in Indices(objects) :
                \A t \in {"ObjectID", "objectID", "PresetID", "presetID",
                          "NMS_LIGHT", "base_builder_item"} :
                    ~HasTag(objects[i], t)
        /\ nms = DefaultSettings

\* C2: a document D written by generate_data(capture_presets=True), read
\* back by generate_from_data(D), gives on the next
\* generate_data(capture_presets=True) the Objects and Presets of D.
RoundTrip ==
    (last.op = "load_nms_data" /\ last.status = "ok" /\ last.input.t = "object") =>
        /\ CanGenerateData(objects, TRUE)
        /\ LET D == last.input.doc
               again == generate_data(nms, objects, TRUE)
           IN  /\ Len(again.Objects) = Len(D.Objects)
               /\ again.Objects = D.Objects
               /\ again.Presets = D.Presets

\* C3: the room-visibility state is one of 0, 1, 2, 3; a run of k
\* consecutive toggles that started in state s is in state (s + k) mod 4,
\* so each toggle steps 0 -> 1 -> 2 -> 3 -> 0 and four of them return to s.
RoomVisCycle ==
    /\ nms.room_vis_switch \in 0..3
    /\ hist.run \in 0..4
    /\ hist.run > 0 => nms.room_vis_switch = (hist.start + hist.run) % 4
    /\ hist.run = 4 => nms.room_vis_switch = hist.start

\* four consecutive toggles that started in the Invisible state
RoomVisCycleWitness ==
    /\ last.op = "toggle_room_visibility"
    /\ hist.run = 4
    /\ hist.start = 2
    /\ nms.room_vis_switch = 2

SnapAgain ==
    /\ last.op = "snap"
    /\ last.status = "ok"
    /\ last.input.flag = "next_target"
    /\ last.input.previous.ret = "True"
    /\ last.input.previous.source = last.input.source
    /\ last.input.previous.target = last.input.target

\* the target list of the pairing (group of the target, group of the source)
SnapAgainTargets ==
    snap_pair_dictionary
        [get_snap_group_from_part(objects[last.input.target].tags["SnapID"])]
        [get_snap_group_from_part(objects[last.input.source].tags["SnapID"])][1]

\* C5 as stated: after snapping A onto B (a plain snap), the snap invoked
\* again with next_target selects the second listed target key of the
\* pairing (the first when the list has one entry), and never a key
\* outside the list.
SnapAgainSecondListed ==
    (SnapAgain /\ last.input.previous.flag = "none") =>
        /\ last.input.target_key \in Range(SnapAgainTargets)
        /\ last.input.target_key =
                IF Len(SnapAgainTargets) >= 2 THEN SnapAgainTargets[2]
                ELSE SnapAgainTargets[1]

\* C5, amended: after snapping A onto B, the snap invoked again with
\* next_target selects the key that follows, cyclically in the pairing's
\* target list, the key the first snap resolved; that is the second listed
\* key exactly when the first snap used the first listed key; the key is
\* never outside the list.
SnapAgainNextListed ==
    SnapAgain =>
        LET T == SnapAgainTargets
            first == last.input.previous.target_key
        IN  /\ first \in Range(T)
            /\ last.input.target_key \in Range(T)
            /\ \E i \in 1..Len(T) :
                /\ T[i] = first
                /\ last.input.target_key = T[(i % Len(T)) + 1]
            /\ (first = T[1]) <=>
                    (last.input.target_key =
                        IF Len(T) >= 2 THEN T[2] ELSE T[1])

\* the first snap used a later key of a list of three: the snap invoked
\* again selects the third key, or wraps to the first
SnapAgainWitness ==
    /\ SnapAgain
    /\ last.input.previous.flag = "none"
    /\ last.input.ret = "True"
    /\ Len(SnapAgainTargets) = 3
    /\ last.input.previous.target_key # SnapAgainTargets[1]
    /\ last.input.target_key # SnapAgainTargets[2]

OverrideDispatch ==
    /\ last.op = "serialise" =>
        LET ob == objects[last.input.part]
            data == last.input.data
        IN  IF ob.tags["ObjectID"] = "MESSAGEMODULE"
            THEN /\ "Message" \in DOMAIN data
                 /\ data.Message[1] = "str"
                 /\ data.Message[2] =
                        IF ob.name \in DOMAIN hist.set
                        THEN hist.set[ob.name][2] ELSE ""
            ELSE "Message" \notin DOMAIN data
    /\ (last.op = "deserialise" /\ "Message" \notin DOMAIN last.input.data) =>
            TagGet(objects[Len(objects)], "Message", "") = ""

\* a message part serialised after the number 5 was set as its message
OverrideDispatchWitness ==
    /\ last.op = "serialise"
    /\ objects[last.input.part].tags["ObjectID"] = "MESSAGEMODULE"
    /\ objects[last.input.part].name \in DOMAIN hist.set
    /\ hist.set[objects[last.input.part].name] = IntVal("5")
    /\ last.input.data.Message = StrVal("5")

\* C8: divide or split invoked on a selection that is not a line part (an
\* object whose "ObjectID" tag is U_POWERLINE, U_PIPELINE or U_PORTALLINE)
\* shows the validation message and leaves the scene as it was.
DivideSplitRejects ==
    [][(last'.op \in {"divide", "split"}
            /\ LET target == get_current_selection(objects)
               IN  \/ target = 0
                   \/ TagGet(objects[target], "ObjectID", None) \notin LineParts) =>
        /\ last'.status = "message"
        /\ last'.msg = PowerlineMessage
        /\ objects' = objects]_vars

\* C9: an import or load of content that is not a document (not JSON, or
\* JSON other than an object) ends with a raised error and leaves the
\* Base Record, the scene and the room-visibility state as they were.
UnparseableAborts ==
    [][(last'.op \in {"import_nms_data", "load_nms_data"}
            /\ last'.input.t # "object") =>
        /\ last'.status = "raised"
        /\ nms' = nms
        /\ objects' = objects]_vars

\* C10: after generate_from_data(doc) for a document mapping doc, no
\* error was raised, every Base Record field whose key doc holds has the
\* value from doc, and every other field has its new-file default.
MissingFieldsDefault ==
    (last.op = "import_nms_data" /\ last.input.t = "object") =>
        LET doc == last.input.doc
            Owner == IF "Owner" \in DOMAIN doc THEN doc.Owner
                     ELSE [k \in {} |-> StrVal("")]
            text(d, key) == IF key \in DOMAIN d THEN d[key][2] ELSE ""
        IN  /\ last.status = "ok"
            /\ nms.string_address = text(doc, "GalacticAddress")
            /\ nms.string_base = text(doc, "Name")
            /\ nms.string_last_ts = text(doc, "LastUpdateTimestamp")
            /\ nms.string_uid = text(Owner, "UID")
            /\ nms.string_lid = text(Owner, "LID")
            /\ nms.string_usn = text(Owner, "USN")
            /\ nms.string_ptk = text(Owner, "PTK")
            /\ nms.string_ts = text(Owner, "TS")
            /\ nms.LastEditedById = text(doc, "LastEditedById")
            /\ nms.LastEditedByUsername_value = text(doc, "LastEditedByUsername")
            /\ nms.float_pos = IF "Position" \in DOMAIN doc
                               THEN doc.Position ELSE ZeroVec
            /\ nms.float_ori = IF "Forward" \in DOMAIN doc
                               THEN doc.Forward ELSE ZeroVec
            /\ nms.original_base_version =
                    IF "OriginalBaseVersion" \in DOMAIN doc
                    THEN doc.OriginalBaseVersion ELSE 3
            /\ nms.room_vis_switch = 0

\* the document the last export put in the clipboard, or the last save
\* wrote to the file
GeneratedDocument ==
    IF last.op = "export_nms_data" THEN last.input.doc ELSE file.doc

\* the stored text parses as an integer: Python's int() accepts decimal
\* digits with surrounding white space
ParsesAsInteger(text) == text \in {"5", " 5", "12"}

\* a field is emitted as the integer the text denotes when the text parses,
\* as the text itself otherwise
EmittedFrom(value, text) ==
    IF ParsesAsInteger(text)
    THEN value[1] = "int" /\ value[2] = (IF text = " 5" THEN "5" ELSE text)
    ELSE value = StrVal(text)

\* C11: every document generate_data returns has BaseVersion 4, UserData 0,
\* an empty RID and the HomePlanetBase type, carries OriginalBaseVersion
\* through, and gives GalacticAddress, LastUpdateTimestamp and Owner.TS as
\* an integer exactly when the stored text parses as one, as the stored
\* text otherwise.
GeneratedFixedFields ==
    (last.op \in {"export_nms_data", "save_nms_data"} /\ last.status = "ok") =>
        LET data == GeneratedDocument
        IN  /\ data.BaseVersion = 4
            /\ data.UserData = 0
            /\ data.RID = StrVal("")
            /\ data.BaseType = [PersistentBaseTypes |-> "HomePlanetBase"]
            /\ data.OriginalBaseVersion = nms.original_base_version
            /\ EmittedFrom(data.GalacticAddress, nms.string_address)
            /\ EmittedFrom(data.LastUpdateTimestamp, nms.string_last_ts)
            /\ EmittedFrom(data.Owner.TS, nms.string_ts)

\* an export after an import whose address is text, whose timestamp is the
\* text of a number and whose version is not the default
GeneratedFixedFieldsWitness ==
    /\ last.op = "export_nms_data"
    /\ last.status = "ok"
    /\ nms.string_address = "0x1A"
    /\ nms.string_last_ts = " 5"
    /\ nms.original_base_version = 2
    /\ last.input.doc.GalacticAddress = StrVal("0x1A")
    /\ last.input.doc.LastUpdateTimestamp = IntVal("5")
    /\ last.input.doc.Owner.TS = StrVal("soon")

\* C12: the document has a "Presets" key exactly when capture_presets was
\* requested: the clipboard export never has it and captures the objects
\* with capture_presets=False, the file save always has it and captures
\* them with capture_presets=True.
PresetsOnlyOnSave ==
    /\ last.op = "export_nms_data" =>
            /\ last.status = "ok" <=> CanGetAllPartData(objects, FALSE)
            /\ last.status = "ok" =>
                    /\ "Presets" \notin DOMAIN last.input.doc
                    /\ last.input.doc.Objects = get_all_part_data(objects, FALSE)
    /\ last.op = "save_nms_data" =>
            /\ last.status = "ok" <=> CanGetAllPartData(objects, TRUE)
            /\ last.status = "ok" =>
                    /\ "Presets" \in DOMAIN file.doc
                    /\ file.doc.Objects = get_all_part_data(objects, TRUE)

\* an export of a scene with a built part, after a save of it: the file
\* has the presets, the clipboard has not
PresetsOnlyOnSaveWitness ==
    /\ last.op = "export_nms_data"
    /\ last.status = "ok"
    /\ Len(last.input.doc.Objects) = 1
    /\ "Presets" \notin DOMAIN last.input.doc
    /\ file.t = "object"
    /\ "Presets" \in DOMAIN file.doc
    /\ file.doc.Objects = last.input.doc.Objects

\* the selection an operation needs is not there
SelectionMissing(op, objs) ==
    IF op \in {"duplicate", "apply_colour"}
    THEN SelectedIdx(objs) = {}
    ELSE Cardinality(SelectedIdx(objs)) # 2

\* the message each operation shows for a missing selection
MissingSelectionMessage(op) ==
    CASE op = "snap" -> SnapMessage
      [] op = "duplicate_along_curve" -> TwoItemsMessage
      [] op = "connect" -> PointsMessage
      [] OTHER -> ItemMessage

\* C13: snap, duplicate_along_curve and connect invoked without exactly two
\* objects selected, and duplicate and apply_colour invoked with nothing
\* selected, show their message and change nothing: the scene, the snap
\* cache and the Base Record stay as they were.
MissingSelection ==
    [][(last'.op \in {"snap", "duplicate", "apply_colour",
                      "duplicate_along_curve", "connect"}
            /\ SelectionMissing(last'.op, objects)) =>
        /\ last'.status = "message"
        /\ last'.msg = MissingSelectionMessage(last'.op)
        /\ objects' = objects
        /\ snap_cache' = snap_cache
        /\ nms' = nms
        /\ part_order' = part_order]_vars

\* connect was invoked with three objects selected, after a snap had
\* filled the snap cache
MissingSelectionWitness ==
    /\ last.op = "connect"
    /\ last.status = "message"
    /\ last.msg = PointsMessage
    /\ Cardinality(SelectedIdx(objects)) = 3
    /\ DOMAIN snap_cache # {}

\* C14: an imported entry whose ObjectID is "^" followed by id is built as
\* the part id (only the leading marker is removed) and is serialised
\* again with the ObjectID "^" followed by id.
MarkerRoundTrip ==
    (last.op = "import_nms_data" /\ last.status = "ok"
        /\ last.input.t = "object" /\ "Objects" \in DOMAIN last.input.doc) =>
        LET entries == last.input.doc.Objects
            n == Len(entries)
        IN  \A k \in 1..n :
                LET object == objects[Len(objects) - n + k]
                IN  /\ <<object.tags["objectID"]>> = Tail(entries[k].ObjectID)
                    /\ get_part_data(object, FALSE).ObjectID
                            = entries[k].ObjectID

\* the sequence in reverse order
RECURSIVE Reversed(_)
Reversed(seq) ==
    IF seq = <<>> THEN <<>>
    ELSE Append(Reversed(Tail(seq)), Head(seq))

\* C15: after register() followed by unregister() the preview collection
\* is released, every class registered on activation has been unregistered
\* in the reverse of its registration order, and none of the scene fields
\* installed on activation (nms_base_tool, col, col_idx) is still installed.
DeactivationUndoesActivation ==
    last.op = "unregister" =>
        /\ addon.preview_collections = {}
        /\ addon.previews = 0
        /\ addon.registered = <<>>
        /\ addon.unregistered = Reversed(classes)
        /\ addon.scene_fields \cap {"nms_base_tool", "col", "col_idx"} = {}

\* a step of the snap command that called snap_objects
SnapCall == last'.op = "snap" /\ last'.status = "ok"

\* C16: snap_objects with a target that is not a preset root, where the
\* source or the target has no SnapID, returns False and changes nothing:
\* the source's world transform, the selection and the snap cache are as
\* they were.
SnapWithoutIdNoOp ==
    [][(SnapCall
            /\ ~HasTag(objects[last'.input.target], "PresetID")
            /\ (~HasTag(objects[last'.input.source], "SnapID")
                    \/ ~HasTag(objects[last'.input.target], "SnapID"))) =>
        /\ last'.input.ret = "False"
        /\ objects'[last'.input.source].matrix_world
                = objects[last'.input.source].matrix_world
        /\ SelectedIdx(objects') = SelectedIdx(objects)
        /\ objects' = objects
        /\ snap_cache' = snap_cache]_vars

\* a part was snapped onto a curve lying elsewhere: it stays where it was
SnapWithoutIdNoOpWitness ==
    /\ last.op = "snap"
    /\ last.status = "ok"
    /\ last.input.ret = "False"
    /\ HasTag(objects[last.input.source], "SnapID")
    /\ objects[last.input.target].kind = "CURVE"
    /\ objects[last.input.source].matrix_world
            # objects[last.input.target].matrix_world

\* there is no pairing for the groups of the two parts
NoPairing(target_id, source_id) ==
    LET target_group == get_snap_group_from_part(target_id)
        source_group == get_snap_group_from_part(source_id)
    IN  ~(/\ target_group \in DOMAIN snap_pair_dictionary
          /\ source_group \in DOMAIN snap_pair_dictionary[target_group])

\* C17: snap_objects of two objects that carry a SnapID for whose groups
\* no pairing exists (also when a SnapID is in no group) returns False
\* with the source at the target's world transform, the source alone
\* selected, nothing else moved and the snap cache unchanged.
SnapWithoutPairingBaseline ==
    [][(SnapCall
            /\ ~HasTag(objects[last'.input.target], "PresetID")
            /\ HasTag(objects[last'.input.source], "SnapID")
            /\ HasTag(objects[last'.input.target], "SnapID")
            /\ NoPairing(objects[last'.input.target].tags["SnapID"],
                         objects[last'.input.source].tags["SnapID"])) =>
        /\ last'.input.ret = "False"
        /\ objects'[last'.input.source].matrix_world
                = objects[last'.input.target].matrix_world
        /\ SelectedIdx(objects') = {last'.input.source}
        /\ \A i \in Indices(objects) \ {last'.input.source} :
                objects'[i].matrix_world = objects[i].matrix_world
        /\ snap_cache' = snap_cache]_vars

\* a room was snapped onto a wall (the wall group has no pairing for a
\* room source) and moved to it, with a snap cache that is not empty
SnapWithoutPairingBaselineWitness ==
    /\ last.op = "snap"
    /\ last.status = "ok"
    /\ last.input.ret = "False"
    /\ TagGet(objects[last.input.source], "SnapID", None) = "CUBEROOM"
    /\ TagGet(objects[last.input.target], "SnapID", None) = "WALL"
    /\ objects[last.input.source].matrix_world
            = objects[last.input.target].matrix_world
    /\ objects[last.input.source].matrix_world.pos # ZeroVec
    /\ DOMAIN snap_cache # {}

\* C18: snap_objects with a target that is a preset root puts the
\* target's world transform on the source and selects the source alone;
\* no snap-point key is resolved and the snap cache is unchanged, whatever
\* the flags and whether or not the source has a SnapID.
SnapToPresetCopies ==
    [][(SnapCall /\ HasTag(objects[last'.input.target], "PresetID")) =>
        /\ objects'[last'.input.source].matrix_world
                = objects[last'.input.target].matrix_world
        /\ SelectedIdx(objects') = {last'.input.source}
        /\ last'.input.source_key = None
        /\ last'.input.target_key = None
        /\ last'.input.ret # "True"
        /\ snap_cache' = snap_cache]_vars

\* a part was snapped with next_target onto a preset root lying elsewhere
SnapToPresetCopiesWitness ==
    /\ last.op = "snap"
    /\ last.status = "ok"
    /\ last.input.flag = "next_target"
    /\ HasTag(objects[last.input.target], "PresetID")
    /\ HasTag(objects[last.input.source], "SnapID")
    /\ SelectedIdx(objects) = {last.input.source}
    /\ objects[last.input.source].matrix_world.pos # ZeroVec

\* a snap step that went on to resolve snap points: the target is no
\* preset root, both parts have a SnapID, their groups have a pairing and
\* the source's group declares snap points
PointLevelSnap ==
    /\ SnapCall
    /\ ~HasTag(objects[last'.input.target], "PresetID")
    /\ HasTag(objects[last'.input.source], "SnapID")
    /\ HasTag(objects[last'.input.target], "SnapID")
    /\ ~NoPairing(objects[last'.input.target].tags["SnapID"],
                  objects[last'.input.source].tags["SnapID"])
    /\ last'.input.target_key # None
    /\ DOMAIN get_snap_matrices_from_group(
            get_snap_group_from_part(
                objects[last'.input.source].tags["SnapID"])) # {}

\* next_source / prev_source stepping of a source key
SourceStepped(key, options, flag) ==
    IF flag = "next_source" THEN get_adjacent_dict_key(options, key, "next")
    ELSE IF flag = "prev_source" THEN get_adjacent_dict_key(options, key, "prev")
    ELSE key

\* the source key of a call that does not force it: the cached key when
\* the pairing lists it, else a default (the first listed source key, or
\* the opposite the target point declares), then stepped
SourceKeyFromCache(cached, options, opposite, flag, source_key) ==
    IF cached \in Range(options)
    THEN source_key = SourceStepped(cached, options, flag)
    ELSE source_key \in {SourceStepped(default, options, flag) :
                            default \in {options[1], opposite} \ {None}}

\* C19: when source and target are of one snap group and a next_target or
\* prev_target step is asked for, the source key is the opposite the
\* newly chosen target point declares; in every other case it is the
\* cached source key when the pairing lists it, else the default, stepped
\* by next_source / prev_source.
SnapSourceKeyByGroup ==
    [][PointLevelSnap =>
        LET source == objects[last'.input.source]
            target == objects[last'.input.target]
            flag == last'.input.flag
            source_group == get_snap_group_from_part(source.tags["SnapID"])
            target_group == get_snap_group_from_part(target.tags["SnapID"])
            options ==
                get_snap_pair_options(target.tags["SnapID"],
                                      source.tags["SnapID"])[2]
            opposite ==
                get_snap_matrices_from_group(target_group)[
                    last'.input.target_key].opposite
            cached == RefGet(CacheGet(snap_cache, source.name), "source", None)
        IN  IF source_group = target_group
               /\ flag \in {"next_target", "prev_target"}
            THEN opposite # None => last'.input.source_key = opposite
            ELSE SourceKeyFromCache(cached, options, opposite, flag,
                                    last'.input.source_key)]_vars

\* the same with "the same part id" in the place of "one snap group"
SnapSourceKeyById ==
    [][PointLevelSnap =>
        LET source == objects[last'.input.source]
            target == objects[last'.input.target]
            flag == last'.input.flag
            target_group == get_snap_group_from_part(target.tags["SnapID"])
            options ==
                get_snap_pair_options(target.tags["SnapID"],
                                      source.tags["SnapID"])[2]
            opposite ==
                get_snap_matrices_from_group(target_group)[
                    last'.input.target_key].opposite
            cached == RefGet(CacheGet(snap_cache, source.name), "source", None)
        IN  IF source.tags["SnapID"] = target.tags["SnapID"]
               /\ flag \in {"next_target", "prev_target"}
            THEN opposite # None => last'.input.source_key = opposite
            ELSE SourceKeyFromCache(cached, options, opposite, flag,
                                    last'.input.source_key)]_vars

\* C20: a snap that resolved both keys reports success; the cache entry
\* of the source's name then holds source = source_key and target = the
\* opposite the source point declares (none when it declares none), the
\* entry of the target's name holds target = target_key with its other
\* fields as they were, the entries of all other names are as they were,
\* and the target and the source are selected.  No other step writes the
\* snap cache.
SnapCacheWritten ==
    [][/\ SnapCall =>
            LET s == last'.input.source
                t == last'.input.target
                source_key == last'.input.source_key
                target_key == last'.input.target_key
                source_points ==
                    get_snap_matrices_from_group(
                        get_snap_group_from_part(objects[s].tags["SnapID"]))
                target_before == CacheGet(snap_cache, objects[t].name)
            IN  IF source_key # None /\ target_key # None
                THEN /\ last'.input.ret = "True"
                     /\ DOMAIN snap_cache' =
                            DOMAIN snap_cache
                                \cup {objects[s].name, objects[t].name}
                     /\ snap_cache'[objects[s].name].source = source_key
                     /\ snap_cache'[objects[s].name].target
                            = source_points[source_key].opposite
                     /\ snap_cache'[objects[t].name].target = target_key
                     /\ \A k \in (DOMAIN target_before
                                    \cup DOMAIN snap_cache'[objects[t].name])
                                \ {"target"} :
                            /\ k \in DOMAIN target_before
                            /\ k \in DOMAIN snap_cache'[objects[t].name]
                            /\ snap_cache'[objects[t].name][k] = target_before[k]
                     /\ \A n \in DOMAIN snap_cache
                                \ {objects[s].name, objects[t].name} :
                            snap_cache'[n] = snap_cache[n]
                     /\ SelectedIdx(objects') = {t, s}
                ELSE /\ last'.input.ret # "True"
                     /\ snap_cache' = snap_cache
       /\ snap_cache' # snap_cache =>
            SnapCall /\ last'.input.ret = "True"]_vars

\* a successful snap by a source point that declares no opposite, onto a
\* target whose own entry holds a source key from an earlier snap, with
\* the entry of an object of an earlier scene in the cache
SnapCacheWrittenWitness ==
    /\ last.op = "snap"
    /\ last.status = "ok"
    /\ last.input.ret = "True"
    /\ last.input.source_key = "SIDE"
    /\ snap_cache[objects[last.input.source].name].target = None
    /\ "source" \in DOMAIN snap_cache[objects[last.input.target].name]
    /\ \E n \in DOMAIN snap_cache :
            \A i \in Indices(objects) : objects[i].name # n

\* the snap cache without the entries left by objects that were deleted:
\* kept are the entries written for objects the scene still holds
LiveEntries ==
    [n \in DOMAIN snap_cache \cap hist.cached |-> snap_cache[n]]

\* C21: snap cache entries do not outlive their object.  Every snap
\* resolves its keys as it would with the entries of deleted objects
\* gone from the cache: an object that has the name of a deleted one is
\* snapped from the default keys of the pairing, not from the keys the
\* deleted object chose last.
SnapCacheEntriesExpire ==
    [][SnapCall =>
        LET fresh == snap_objects(objects, LiveEntries, last'.input.source,
                                  last'.input.target,
                                  last'.input.flag = "next_source",
                                  last'.input.flag = "prev_source",
                                  last'.input.flag = "next_target",
                                  last'.input.flag = "prev_target")
        IN  /\ last'.input.source_key = fresh.source_key
            /\ last'.input.target_key = fresh.target_key
            /\ objects' = fresh.objects]_vars

\* the world position of snap point key of a part
SnapPointPosition(ob, key) ==
    MatMul(ob.matrix_world,
           get_snap_matrices_from_group(
               get_snap_group_from_part(ob.tags["SnapID"]))[key].matrix).pos

\* the offset between the snap points of a pair
PairOffset(source, target, pair) ==
    LET a == SnapPointPosition(source, pair[1])
        b == SnapPointPosition(target, pair[2])
    IN  [c \in 1..3 |-> b[c] - a[c]]

Magnitude(n) == IF n < 0 THEN 0 - n ELSE n

\* an offset of 9999999 or more along X (objects are put far away along
\* X only)
IsFar(v) == Magnitude(v[1]) >= lowest_distance_initial

\* the Euclidean length of v is at most that of w
NoLonger(v, w) ==
    IF ~IsFar(v) /\ ~IsFar(w) THEN Dot(v, v) <= Dot(w, w)
    ELSE IF IsFar(v) /\ IsFar(w)
    THEN \/ Magnitude(v[1]) < Magnitude(w[1])
         \/ /\ Magnitude(v[1]) = Magnitude(w[1])
            /\ v[2] * v[2] + v[3] * v[3] <= w[2] * w[2] + w[3] * w[3]
    ELSE ~IsFar(v)

\* the snap point names of a part that a filter admits; none for a part
\* of no group or of a group without snap points
AdmittedKeys(ob, filter) ==
    IF ~HasTag(ob, "SnapID") THEN {}
    ELSE {k \in DOMAIN get_snap_matrices_from_group(
                    get_snap_group_from_part(ob.tags["SnapID"])) :
            filter = <<>> \/ IsSubstring(filter, KeyChars(k))}

\* the candidate pairs of a call
CandidatePairs(source, target, source_filter, target_filter) ==
    AdmittedKeys(source, source_filter) \X AdmittedKeys(target, target_filter)

\* pair p is scanned before pair q
ScannedBefore(source, target, p, q) ==
    LET source_keys ==
            snap_point_keys(get_snap_group_from_part(source.tags["SnapID"]))
        target_keys ==
            snap_point_keys(get_snap_group_from_part(target.tags["SnapID"]))
    IN  \/ IndexOf(source_keys, p[1]) < IndexOf(source_keys, q[1])
        \/ /\ p[1] = q[1]
           /\ IndexOf(target_keys, p[2]) < IndexOf(target_keys, q[2])

\* pair is the closest candidate pair, the first scanned of those equally
\* close
ClosestPair(source, target, pairs, pair) ==
    /\ pair \in pairs
    /\ \A q \in pairs :
            /\ NoLonger(PairOffset(source, target, pair),
                        PairOffset(source, target, q))
            /\ q # pair /\ NoLonger(PairOffset(source, target, q),
                                    PairOffset(source, target, pair))
                    => ScannedBefore(source, target, pair, q)

\* C22: get_closest_snap_points returns the pair of keys of the admitted
\* source and target points that are the least Euclidean distance apart,
\* the first pair scanned of those equally close, and (None, None) when
\* there is no candidate pair.
ClosestSnapPointsMinimum ==
    last.op = "get_closest_snap_points" =>
        LET source == objects[last.input.source]
            target == objects[last.input.target]
            pairs == CandidatePairs(source, target, last.input.source_filter,
                                    last.input.target_filter)
            returned == <<last.input.source_key, last.input.target_key>>
        IN  /\ last.status = "ok"
            /\ IF pairs = {} THEN returned = <<None, None>>
               ELSE ClosestPair(source, target, pairs, returned)

\* what holds of it: a part of no group or of a group without snap points
\* makes the call raise when its points are to be scanned, and only pairs
\* less than 9999999 apart are candidates
ClosestSnapPointsBelowInitial ==
    last.op = "get_closest_snap_points" =>
        LET source == objects[last.input.source]
            target == objects[last.input.target]
            pairs == CandidatePairs(source, target, last.input.source_filter,
                                    last.input.target_filter)
            near == {q \in pairs : ~IsFar(PairOffset(source, target, q))}
            returned == <<last.input.source_key, last.input.target_key>>
            unscannable(ob) ==
                DOMAIN get_snap_matrices_from_group(
                    get_snap_group_from_part(ob.tags["SnapID"])) = {}
        IN  IF unscannable(source)
               \/ (unscannable(target)
                    /\ AdmittedKeys(source, last.input.source_filter) # {})
            THEN last.status = "raised"
            ELSE /\ last.status = "ok"
                 /\ IF near = {} THEN returned = <<None, None>>
                    ELSE ClosestPair(source, target, near, returned)

\* the last operation called generate_from_data with a parsed document
GenerateCall ==
    /\ last.op \in {"import_nms_data", "load_nms_data"}
    /\ last.input.t # "malformed"

\* the keys of the document handed to the last call; a value that is no
\* JSON object has none
GenerateKeys ==
    IF last.input.t = "object" THEN DOMAIN last.input.doc ELSE {}

\* how often a step was performed
Occurrences(steps, step) ==
    Cardinality({i \in 1..Len(steps) : steps[i] = step})

-----------------------------------------------------------------------------
(* retrieve_part *)

\* the part ids retrieve_part is asked for: with and without an asset file
RetrievedIds == part_reference \cup {"SIGN", "U_POWERLINE"}

\* the part ids an object of the scene was built for by retrieve_part
BuiltBefore(objs) ==
    {objs[i].tags["objectID"] : i \in {j \in Indices(objs) : HasTag(objs[j], "objectID")}}

\* C24: retrieve_part(part_id) duplicates the cached hierarchy when the part
\* was built before and its object is still in the scene, else imports the
\* asset file when the part has one, else makes a placeholder cube; the
\* object it returns carries part_id as its name (before the host's
\* numbering) and as its "objectID" tag.
RetrievePartPriority ==
    \A part_id \in RetrievedIds :
        LET after == retrieve_part(objects, part_id)
            item  == after[Len(objects) + 1]
        IN  /\ retrieve_outcome(objects, part_id) =
                  IF part_id \in BuiltBefore(objects) THEN "duplicate"
                  ELSE IF part_id \in part_reference THEN "import" ELSE "cube"
            /\ Len(after) > Len(objects)
            /\ item.name[1] = part_id
            /\ item.tags["objectID"] = part_id

-----------------------------------------------------------------------------
(* get_all_nms_objects *)

\* C25: in any scene, lights, curves and untagged objects included,
\* get_all_nms_objects(True) returns the objects tagged with a preset
\* identity together with exactly the objects whose preset-membership flag
\* is false, and get_all_nms_objects(False) returns exactly the objects
\* carrying the objectID tag.
GetAllNmsObjectsReturns ==
    \A capture_presets \in BOOLEAN :
        /\ CanGetAllNmsObjects(objects, capture_presets)
        /\ Elements(get_all_nms_objects(objects, capture_presets)) =
              IF capture_presets
              THEN {objects[i] : i \in {j \in Indices(objects) :
                        \/ HasTag(objects[j], "presetID")
                        \/ TagGet(objects[j], "belongs_to_preset", TRUE) = FALSE}}
              ELSE {objects[i] : i \in {j \in Indices(objects) :
                        HasTag(objects[j], "objectID")}}

-----------------------------------------------------------------------------
(* generate_ui_list_data *)

\* text.split(separator)
RECURSIVE SplitText(_, _, _)
SplitText(text, separator, entry) ==
    IF text = <<>> THEN <<entry>>
    ELSE IF Head(text) = separator
         THEN <<entry>> \o SplitText(Tail(text), separator, "")
         ELSE SplitText(Tail(text), separator, Head(text))

\* number of rows a category of n parts takes after its header
RowCount(n) == (n + 2) \div 3

RECURSIVE HeaderRow(_, _, _)
HeaderRow(catalogue, categories, k) ==
    IF k = 1 THEN 1
    ELSE HeaderRow(catalogue, categories, k - 1) + 1
         + RowCount(Len(get_parts_from_category(catalogue, categories[k - 1])))

RECURSIVE Concatenated(_)
Concatenated(lists) ==
    IF lists = <<>> THEN <<>> ELSE Head(lists) \o Concatenated(Tail(lists))

NotPlaceholder(entry) == entry # ""

\* the rows of category k are as the build panel lays them out
CategoryLaidOut(catalogue, categories, rows, k) ==
    LET parts   == get_parts_from_category(catalogue, categories[k])
        header  == HeaderRow(catalogue, categories, k)
        count   == RowCount(Len(parts))
        entries == [r \in 1..count |-> SplitText(rows[header + r][2], ",", "")]
    IN  /\ Len(rows) >= header + count
        /\ rows[header] = <<categories[k], <<>> >>
        /\ \A r \in 1..count :
              /\ rows[header + r][1] = ""
              /\ Len(entries[r]) = 3
              /\ r < count => \A e \in 1..3 : entries[r][e] # ""
        /\ SelectSeq(Concatenated(entries), NotPlaceholder) = parts

\* C26: for parts, generate_ui_list_data emits for each category of n >= 0
\* parts one header row and then ceil(n/3) rows of comma-joined part ids in
\* sorted order, 3 entries a row, only the last row padded with empty
\* placeholders; without the placeholders the rows of a category give its
\* sorted part list.  For presets it emits the header row "Presets" and
\* one row per preset name.
UiListRows ==
    last.op = "generate_ui_list_data" =>
        LET rows       == last.input.rows
            catalogue  == last.input.catalogue
            categories == get_categories(catalogue)
            presets    == last.input.presets
        IN  /\ last.status = "ok"
            /\ IF last.input.item_type = "presets"
               THEN /\ Len(rows) = 1 + Len(presets)
                    /\ rows[1] = <<"Presets", <<>> >>
                    /\ \A k \in 1..Len(presets) :
                          rows[k + 1] = <<"", <<presets[k]>> >>
               ELSE /\ Len(rows) = HeaderRow(catalogue, categories,
                                             Len(categories) + 1) - 1
                    /\ \A k \in 1..Len(categories) :
                          CategoryLaidOut(catalogue, categories, rows, k)

\* what holds of it: a category without parts makes the call raise, and
\* the rows are as described when every category has a part
UiListRowsOfFilledCategories ==
    last.op = "generate_ui_list_data" =>
        LET catalogue  == last.input.catalogue
            categories == get_categories(catalogue)
            empty == {k \in 1..Len(categories) :
                        get_parts_from_category(catalogue, categories[k]) = <<>>}
        IN  IF last.input.item_type = "parts" /\ empty # {}
            THEN last.status = "raised" /\ last.msg = "IndexError"
            ELSE UiListRows

-----------------------------------------------------------------------------
(* build_item and get_part_data *)

\* get_part_data(object, is_preset=False) succeeds and emits this id,
\* timestamp and user data
SerialisedAs(object, part, timestamp, userdata) ==
    /\ CanGetPartData(object, FALSE)
    /\ LET data == get_part_data(object, FALSE)
       IN  /\ data.ObjectID = Caret(part)
           /\ data.Timestamp = timestamp
           /\ data.UserData = userdata

-----------------------------------------------------------------------------
(* The source key of a point-level snap *)

\* the source point names of the pairing of the last snap
SourceOptions ==
    get_snap_pair_options(objects[last.input.target].tags["SnapID"],
                          objects[last.input.source].tags["SnapID"])[2]

-----------------------------------------------------------------------------
(* Transparency and the room-visibility state *)

\* C29: in every state reached by toggle_room_visibility, new_file and
\* generate_from_data, the materials are transparent (alpha 0.07) only when
\* the room-visibility state is 1, and in the states 0, 2 and 3 the alpha
\* of every material is 1.0.
AlphaFollowsRoomVis ==
    /\ material_alpha = 7 => nms.room_vis_switch = 1
    /\ nms.room_vis_switch \in {0, 2, 3} => material_alpha = 100

\* what holds of it: the alpha is the one of the state the last toggle
\* left, and a new file leaves it as it was
AlphaFollowsLastToggle ==
    [][/\ last'.op = "toggle_room_visibility" =>
            material_alpha' = IF nms'.room_vis_switch = 1 THEN 7 ELSE 100
       /\ last'.op # "toggle_room_visibility" =>
            material_alpha' = material_alpha]_vars

-----------------------------------------------------------------------------
(* The Base Record round trip *)

\* the fields of the Base Record that generate_from_data reads
RecordKeys ==
    {"GalacticAddress", "LastUpdateTimestamp", "Owner", "Name",
     "LastEditedById", "LastEditedByUsername", "OriginalBaseVersion",
     "Position", "Forward"}

\* the last operation was generate_from_data(D) for a document D that
\* generate_data had returned: the saved file, or a pasted export.  Only
\* the documents of generate_data carry BaseVersion.
GeneratedDocumentRead ==
    /\ last.op \in {"load_nms_data", "import_nms_data"}
    /\ last.status = "ok"
    /\ last.input.t = "object"
    /\ "BaseVersion" \in DOMAIN last.input.doc

\* C30: for a document D returned by generate_data, generate_from_data(D)
\* followed by generate_data returns the values of D, integer where D has
\* an integer and text where D has text, for GalacticAddress,
\* LastUpdateTimestamp, Owner (UID, LID, USN, PTK, TS), Name,
\* LastEditedById, LastEditedByUsername, OriginalBaseVersion, Position and
\* Forward.
RecordRoundTrip ==
    GeneratedDocumentRead =>
        /\ CanGenerateData(objects, FALSE)
        /\ LET D == last.input.doc
               again == generate_data(nms, objects, FALSE)
           IN  /\ RecordKeys \subseteq DOMAIN D
               /\ \A key \in RecordKeys : again[key] = D[key]

\* a saved document whose address is text, whose last-update timestamp is
\* an integer and whose version is not the default was loaded
RecordRoundTripWitness ==
    /\ GeneratedDocumentRead
    /\ last.op = "load_nms_data"
    /\ last.input.doc.GalacticAddress = StrVal("0x1A")
    /\ last.input.doc.LastUpdateTimestamp = IntVal("5")
    /\ last.input.doc.Owner.TS = StrVal("soon")
    /\ last.input.doc.OriginalBaseVersion = 2
    /\ nms.string_last_ts = "5"

====
